---------------------------- MODULE Spec2Model ----------------------------
(***************************************************************************)
(* Cortex Sorter (src/main.py): the per-file sort pipeline of FileSorter,  *)
(* the duplicate ledger of DatabaseManager, the stability gate and the     *)
(* relocator of FileOperations, and the rule model of SortingRule/Config.  *)
(*                                                                         *)
(* File names, extensions and keywords are sequences of one-character      *)
(* strings, so that lower(), Path.suffix, Path.stem, startswith and the    *)
(* substring test are computed as Python computes them.                    *)
(***************************************************************************)
EXTENDS Integers, Sequences, FiniteSets, TLC

(***************************************************************************)
(* Bounds of the model.                                                    *)
(*   MaxAttempts  stands for get_unique_path's max_attempts (1000 in the   *)
(*                code, main.py:470), scaled down: the candidates are the  *)
(*                requested name and the counters 1 .. MaxAttempts-1.      *)
(*   MaxSize      the number of bytes a writer appends to a file.          *)
(***************************************************************************)
MaxAttempts == 3
MaxSize == 2
\* the events the handler is followed through when its decision alone is
\* looked at
MaxEvents == 2
\* the rules of the longest rules.yml that is loaded
MaxRules == 3

None == "None"
\* an unset path, sample or digest
Nil == <<>>
\* an unset or NULL size
NoSize == 0 - 1

---------------------------------------------------------------------------
(* Strings                                                                 *)

\* str.lower() on one character (the alphabet of the model's names)
LowerChar(c) ==
  CASE c = "I" -> "i"
    [] c = "N" -> "n"
    [] c = "V" -> "v"
    [] c = "P" -> "p"
    [] c = "D" -> "d"
    [] c = "F" -> "f"
    [] c = "T" -> "t"
    [] c = "O" -> "o"
    [] c = "X" -> "x"
    [] c = "B" -> "b"
    [] c = "M" -> "m"
    [] OTHER  -> c

\* str.lower()
Lower(s) == [i \in 1..Len(s) |-> LowerChar(s[i])]

\* str.strip(): leading and trailing blanks removed
RECURSIVE LStrip(_)
LStrip(s) == IF s # <<>> /\ Head(s) = " " THEN LStrip(Tail(s)) ELSE s

RECURSIVE RStrip(_)
RStrip(s) ==
  IF s # <<>> /\ s[Len(s)] = " " THEN RStrip(SubSeq(s, 1, Len(s) - 1)) ELSE s

Strip(s) == RStrip(LStrip(s))

\* str.startswith(prefix)
StartsWith(s, prefix) ==
  /\ Len(prefix) <= Len(s)
  /\ SubSeq(s, 1, Len(prefix)) = prefix

\* `kw in s` on strings: kw occurs as a contiguous substring of s
Contains(s, kw) ==
  \E i \in 0..(Len(s) - Len(kw)) : SubSeq(s, i + 1, i + Len(kw)) = kw

\* str.rfind('.') as a 1-based index, 0 when there is no dot
RFindDot(s) ==
  LET dots == {i \in 1..Len(s) : s[i] = "."}
  IN  IF dots = {} THEN 0 ELSE CHOOSE i \in dots : \A j \in dots : j <= i

\* pathlib's PurePath.suffix: from the last dot, unless the dot is the first
\* or the last character of the name
Suffix(name) ==
  LET i == RFindDot(name)
  IN  IF 1 < i /\ i < Len(name) THEN SubSeq(name, i, Len(name)) ELSE <<>>

\* pathlib's PurePath.stem
Stem(name) ==
  LET i == RFindDot(name)
  IN  IF 1 < i /\ i < Len(name) THEN SubSeq(name, 1, i - 1) ELSE name

\* str(counter) for the counters get_unique_path can append
Digits == <<"1", "2", "3", "4", "5", "6", "7", "8", "9">>

\* membership in a Python list
InList(x, list) == \E i \in 1..Len(list.items) : list.items[i] = x

---------------------------------------------------------------------------
(* The files of the watched folder and the configured rules                *)

Files == {"f1", "f2"}

\* the file names: Inv.PDF and n.txt
NameOf(f) ==
  IF f = "f1" THEN <<"I", "n", "v", ".", "P", "D", "F">>
              ELSE <<"n", ".", "t", "x", "t">>

\* the byte stream each file's writer copies; both files are copies of the
\* same stream, so they are byte-identical exactly when equally long
StreamOf(f) == "A"

\* the text pdfplumber finds in the file's first pages: "Total"
TextOf(f) == <<"T", "o", "t", "a", "l">>

\* An Optional[List[str]] field: None, or a list
Absent == [given |-> FALSE, items |-> <<>>]
List(items) == [given |-> TRUE, items |-> items]

\* Python truthiness of an optional list: None and [] are falsy
Truthy(list) == list.given /\ list.items # <<>>

SourceFolder == "src"
DuplicateFolder == "dup"
RuleDests == {"D1", "D2", "D3"}
Dirs == {SourceFolder, DuplicateFolder} \cup RuleDests

\* rules.yml as load_config reads it, in configuration order
\* The rules are PDFs (extensions PDF), Invoices (extensions .pdf, name
\* " INV"), Summaries (extensions .pdf, name "inv", content "sum"), Totals
\* (extensions .pdf, name "in", content "tot") and Reports (extensions .pdf
\* and TXT, name "n.t", content "tot").
RawRules == <<
  [name |-> "PDFs", dest |-> "D1",
   extensions |-> List(<< <<"P", "D", "F">> >>),
   name_contains |-> Absent, content_contains |-> Absent],
  [name |-> "Invoices", dest |-> "D2",
   extensions |-> List(<< <<".", "p", "d", "f">> >>),
   name_contains |-> List(<< <<" ", "I", "N", "V">> >>),
   content_contains |-> Absent],
  [name |-> "Summaries", dest |-> "D2",
   extensions |-> List(<< <<".", "p", "d", "f">> >>),
   name_contains |-> List(<< <<"i", "n", "v">> >>),
   content_contains |-> List(<< <<"s", "u", "m">> >>)],
  [name |-> "Totals", dest |-> "D3",
   extensions |-> List(<< <<".", "p", "d", "f">> >>),
   name_contains |-> List(<< <<"i", "n">> >>),
   content_contains |-> List(<< <<"t", "o", "t">> >>)],
  [name |-> "Reports", dest |-> "D1",
   extensions |-> List(<< <<".", "p", "d", "f">>, <<"T", "X", "T">> >>),
   name_contains |-> List(<< <<"n", ".", "t">> >>),
   content_contains |-> List(<< <<"t", "o", "t">> >>)]
>>

\* the list comprehension `[f(x) for x in list if keep(x)]`
RECURSIVE FilterBlank(_)
FilterBlank(list) ==
  IF list = <<>> THEN <<>>
  ELSE IF Strip(Head(list)) # <<>>
       THEN <<Strip(Lower(Head(list)))>> \o FilterBlank(Tail(list))
       ELSE FilterBlank(Tail(list))

NormExt(ext) ==
  IF StartsWith(ext, <<".">>) THEN Lower(ext) ELSE <<".">> \o Lower(ext)

\* SortingRule.__post_init__: normalisation and the derived priority
PostInit(r) ==
  LET exts == IF Truthy(r.extensions)
              THEN List([i \in 1..Len(r.extensions.items) |->
                           NormExt(r.extensions.items[i])])
              ELSE r.extensions
      nkw  == IF Truthy(r.name_contains)
              THEN List(FilterBlank(r.name_contains.items))
              ELSE r.name_contains
      ckw  == IF Truthy(r.content_contains)
              THEN List(FilterBlank(r.content_contains.items))
              ELSE r.content_contains
  IN  [name |-> r.name, dest |-> r.dest, extensions |-> exts,
       name_contains |-> nkw, content_contains |-> ckw,
       priority |-> (IF Truthy(exts) THEN 1 ELSE 0)
                    + (IF Truthy(nkw) THEN 1 ELSE 0)
                    + (IF Truthy(ckw) THEN 1 ELSE 0)]

\* _parse_sorting_rules: one SortingRule per entry, in configuration order
ParseSortingRules(raw) == [i \in 1..Len(raw) |-> PostInit(raw[i])]

\* mutant: a rule is put in front of the rules of its own priority
InsertBeforeEquals(sorted, r) ==
  LET higher == {i \in 1..Len(sorted) : sorted[i].priority > r.priority}
      k == Cardinality(higher)
  IN  SubSeq(sorted, 1, k) \o <<r>> \o SubSeq(sorted, k + 1, Len(sorted))

\* list.sort(key=priority, reverse=True): stable, descending priority
RECURSIVE InsertByPriority(_, _)
InsertByPriority(sorted, r) ==
  IF sorted = <<>> THEN <<r>>
  ELSE IF Head(sorted).priority >= r.priority
       THEN <<Head(sorted)>> \o InsertByPriority(Tail(sorted), r)
       ELSE <<r>> \o sorted

RECURSIVE SortRules(_)
SortRules(list) ==
  IF list = <<>> THEN <<>>
  ELSE InsertByPriority(SortRules(SubSeq(list, 1, Len(list) - 1)),
                        list[Len(list)])

\* mutant: the rules are left in configuration order
ConfigRulesUnsorted == ParseSortingRules(RawRules)

\* Config.rules after Config.__post_init__
ConfigRules == SortRules(ParseSortingRules(RawRules))


---------------------------------------------------------------------------
(* Paths and the file system                                               *)

Names == {NameOf(f) : f \in Files}

\* A path is <<directory, requested file name, counter>>: counter 0 is the
\* name itself, counter k >= 1 is the name get_unique_path builds with "_k".
Paths == Dirs \X Names \X (0..MaxAttempts)

NoFile == "none"
\* a file that was in a destination folder before the sorter started
Foreign == "x"

\* Path.name of a path
PathName(path) ==
  IF path[3] = 0 THEN path[2]
  ELSE Stem(path[2]) \o <<"_", Digits[path[3]]>> \o Suffix(path[2])

\* the path a created event names for file f
SrcPath(f) == <<SourceFolder, NameOf(f), 0>>

\* get_unique_path raises FileProcessingError instead of returning a path
Raise == <<"FileProcessingError">>

\* the `for counter in range(1, max_attempts)` loop of get_unique_path
RECURSIVE UniqueFrom(_, _, _)
UniqueFrom(fsys, path, counter) ==
  IF counter >= MaxAttempts THEN Raise
  ELSE IF fsys[<<path[1], path[2], counter>>] = NoFile
       THEN <<path[1], path[2], counter>>
       ELSE UniqueFrom(fsys, path, counter + 1)

\* mutant: the loop runs one counter further than max_attempts allows
GetUniquePathOneMore(fsys, path) ==
  IF fsys[path] = NoFile THEN path
  ELSE IF \E k \in 1..MaxAttempts : fsys[<<path[1], path[2], k>>] = NoFile
       THEN <<path[1], path[2],
              CHOOSE k \in 1..MaxAttempts :
                /\ fsys[<<path[1], path[2], k>>] = NoFile
                /\ \A j \in 1..(k - 1) : fsys[<<path[1], path[2], j>>] # NoFile>>
       ELSE Raise

\* mutant: the counter found is not checked against the directory
GetUniquePathFirstCounter(fsys, path) ==
  IF fsys[path] = NoFile THEN path ELSE <<path[1], path[2], 1>>

\* FileOperations.get_unique_path
GetUniquePath(fsys, path) ==
  IF fsys[path] = NoFile THEN path ELSE UniqueFrom(fsys, path, 1)

---------------------------------------------------------------------------
(* Rule matching                                                           *)

\* extract_text returned None
NoText == <<>>

\* PDFAnalyzer.contains_keywords
ContainsKeywords(content, keywords) ==
  IF content = NoText \/ Strip(content) = <<>> THEN FALSE
  ELSE IF ~Truthy(keywords) THEN FALSE
  ELSE \E i \in 1..Len(keywords.items) :
         /\ Strip(keywords.items[i]) # <<>>
         /\ Contains(Lower(content), Strip(Lower(keywords.items[i])))

PdfSuffix == <<".", "p", "d", "f">>

\* mutant: the text is extracted before the cheap checks are made
MatchRuleEager(present, name, rule, text) ==
  LET file_suffix == Lower(Suffix(name))
      file_name_lower == Lower(name)
      calls == IF present /\ Truthy(rule.content_contains) THEN 1 ELSE 0
  IN  IF ~present THEN [matched |-> FALSE, calls |-> 0]
      ELSE IF Truthy(rule.extensions) /\ ~InList(file_suffix, rule.extensions)
      THEN [matched |-> FALSE, calls |-> calls]
      ELSE IF /\ Truthy(rule.name_contains)
              /\ ~\E i \in 1..Len(rule.name_contains.items) :
                    Contains(file_name_lower, rule.name_contains.items[i])
      THEN [matched |-> FALSE, calls |-> calls]
      ELSE IF Truthy(rule.content_contains)
      THEN IF file_suffix # PdfSuffix
           THEN [matched |-> FALSE, calls |-> calls]
           ELSE [matched |-> ContainsKeywords(text, rule.content_contains),
                 calls |-> calls]
      ELSE [matched |-> TRUE, calls |-> calls]

\* mutant: a rule with content keywords is not held against a file that is
\* not a PDF; its other criteria decide
MatchRuleContentOptional(present, name, rule, text) ==
  LET file_suffix == Lower(Suffix(name))
      file_name_lower == Lower(name)
  IN  IF ~present THEN [matched |-> FALSE, calls |-> 0]
      ELSE IF Truthy(rule.extensions) /\ ~InList(file_suffix, rule.extensions)
      THEN [matched |-> FALSE, calls |-> 0]
      ELSE IF /\ Truthy(rule.name_contains)
              /\ ~\E i \in 1..Len(rule.name_contains.items) :
                    Contains(file_name_lower, rule.name_contains.items[i])
      THEN [matched |-> FALSE, calls |-> 0]
      ELSE IF Truthy(rule.content_contains) /\ file_suffix = PdfSuffix
      THEN IF text = NoText
           THEN [matched |-> FALSE, calls |-> 1]
           ELSE [matched |-> ContainsKeywords(text, rule.content_contains),
                 calls |-> 1]
      ELSE [matched |-> TRUE, calls |-> 0]

\* FileSorter.match_rule for a file named `name` that exists or not
\* (`present`); `text` is what extract_text returns if it is called (NoText on
\* failure).  The result carries the number of extract_text calls made.
MatchRule(present, name, rule, text) ==
  LET file_suffix == Lower(Suffix(name))
      file_name_lower == Lower(name)
  IN  IF ~present THEN [matched |-> FALSE, calls |-> 0]
      ELSE IF Truthy(rule.extensions) /\ ~InList(file_suffix, rule.extensions)
      THEN [matched |-> FALSE, calls |-> 0]
      ELSE IF /\ Truthy(rule.name_contains)
              /\ ~\E i \in 1..Len(rule.name_contains.items) :
                    Contains(file_name_lower, rule.name_contains.items[i])
      THEN [matched |-> FALSE, calls |-> 0]
      ELSE IF Truthy(rule.content_contains)
      THEN IF file_suffix # PdfSuffix
           THEN [matched |-> FALSE, calls |-> 0]
           ELSE IF text = NoText
           THEN [matched |-> FALSE, calls |-> 1]
           ELSE [matched |-> ContainsKeywords(text, rule.content_contains),
                 calls |-> 1]
      ELSE [matched |-> TRUE, calls |-> 0]

---------------------------------------------------------------------------
(* State                                                                   *)

\* the sort_file calls the model follows (one per delivered event)
Proc == {"p1", "p2"}

VARIABLES
  fs,         \* the file system: path -> NoFile, Foreign or the file there
  size,       \* st_size of each file
  mtime,      \* st_mtime of each file
  ledger,     \* the rows of table file_hashes, in insertion order
  stats,      \* FileSorter.stats
  pc,         \* where each sort_file call stands
  file,       \* the file whose source path the call was given
  ord,        \* stats['files_processed'] as this call left it (its rank)
  sample,     \* wait_for_file_stability: <<initial_size, initial_mtime>>
  cur_size,   \* wait_for_file_stability: current_size (the second sample)
  file_hash,  \* sort_file: file_hash
  rule_i,     \* _apply_sorting_rules: index of the rule under evaluation
  dest_path,  \* handle_duplicate / _move_file_with_rule: dest_path
  outcome,    \* the return a finished call took
  trail,      \* the match_rule results of the call so far, in order
  placed,     \* the result of the call's last placement attempt
  faulted,    \* a ledger or OS fault was injected into the call
  quiet_del,  \* the call's file was deleted while the gate slept
  probe       \* the last direct call of get_unique_path: <<path, result>>

vars == <<fs, size, mtime, ledger, stats, pc, file, ord, sample, cur_size,
          file_hash, rule_i, dest_path, outcome, trail, placed, faulted,
          quiet_del, probe>>

\* what no step of sort_file changes
env_vars == <<size, mtime, probe>>
gate_vars == <<sample, cur_size>>
locals == <<file, ord, sample, cur_size, file_hash, rule_i, dest_path,
            trail, placed>>

Exists(path) == fs[path] # NoFile

\* st_size of the file at a path (NoSize when stat fails)
StSize(path) == IF fs[path] \in Files THEN size[fs[path]] ELSE NoSize

\* hashlib.sha256 of the bytes read: two reads give the same digest exactly
\* when they read the same bytes
Digest(f) == <<StreamOf(f), size[f]>>

\* the candidate paths of every name in a directory
Candidates(dir) == {<<dir, n, k>> : n \in Names, k \in 0..(MaxAttempts - 1)}

\* what the destination folders hold when the sorter starts
PreFills ==
  { {},
    {<<d, n, 0>> : d \in RuleDests \cup {DuplicateFolder}, n \in Names},
    Candidates(DuplicateFolder),
    UNION {Candidates(d) : d \in RuleDests} }

InitLocals ==
  /\ pc = [p \in Proc |-> "idle"]
  /\ file = [p \in Proc |-> None]
  /\ ord = [p \in Proc |-> 0]
  /\ sample = [p \in Proc |-> Nil]
  /\ cur_size = [p \in Proc |-> NoSize]
  /\ file_hash = [p \in Proc |-> Nil]
  /\ rule_i = [p \in Proc |-> 0]
  /\ dest_path = [p \in Proc |-> Nil]
  /\ outcome = [p \in Proc |-> None]
  /\ trail = [p \in Proc |-> <<>>]
  /\ placed = [p \in Proc |-> None]
  /\ faulted = [p \in Proc |-> FALSE]
  /\ quiet_del = [p \in Proc |-> FALSE]
  /\ probe = Nil

\* FileSorter.__init__ and DatabaseManager._init_database on a new store;
\* the files have just been created, empty, in the source folder
Init ==
  /\ \E pre \in PreFills :
       fs = [path \in Paths |->
               IF \E f \in Files : path = SrcPath(f)
               THEN CHOOSE f \in Files : path = SrcPath(f)
               ELSE IF path \in pre THEN Foreign ELSE NoFile]
  /\ size = [f \in Files |-> 0]
  /\ mtime = [f \in Files |-> 0]
  /\ ledger = <<>>
  /\ stats = [files_processed |-> 0, duplicates_found |-> 0,
              files_sorted |-> 0, errors |-> 0]
  /\ InitLocals

---------------------------------------------------------------------------
(* The environment: the writer of a file and whoever deletes it            *)

Sleeping(p) == pc[p] \in {"sleep1", "sleep2lock", "sleep2chg"}

\* the writer appends to a file still in the source folder
Write(f) ==
  /\ fs[SrcPath(f)] = f
  /\ size[f] < MaxSize
  /\ size' = [size EXCEPT ![f] = @ + 1]
  /\ mtime' = [mtime EXCEPT ![f] = @ + 1]
  /\ UNCHANGED <<fs, ledger, stats, pc, locals, outcome, faulted, quiet_del,
                 probe>>

\* somebody removes the file from the source folder
Delete(f) ==
  /\ fs[SrcPath(f)] = f
  /\ fs' = [fs EXCEPT ![SrcPath(f)] = NoFile]
  /\ quiet_del' = [p \in Proc |->
                     quiet_del[p] \/ (file[p] = f /\ Sleeping(p))]
  /\ UNCHANGED <<env_vars, ledger, stats, pc, locals, outcome, faulted>>

---------------------------------------------------------------------------
(* The duplicate ledger                                                    *)

\* DatabaseManager.is_duplicate: SELECT 1 ... WHERE sha256_hash = ?
IsDuplicate(led, hash) == \E i \in 1..Len(led) : led[i].sha256_hash = hash

\* mutant: the table has no UNIQUE constraint on sha256_hash
AddFileRecordNoUnique(led, hash, path, st_size) ==
  Append(led, [sha256_hash |-> hash, original_path |-> path,
               file_size |-> st_size, file_name |-> PathName(path)])

\* mutant: INSERT OR REPLACE instead of INSERT
AddFileRecordReplace(led, hash, path, st_size) ==
  LET row == [sha256_hash |-> hash, original_path |-> path,
              file_size |-> st_size, file_name |-> PathName(path)]
  IN  IF IsDuplicate(led, hash)
      THEN [i \in 1..Len(led) |->
              IF led[i].sha256_hash = hash THEN row ELSE led[i]]
      ELSE Append(led, row)

\* DatabaseManager.add_file_record: the INSERT, which the UNIQUE constraint
\* of sha256_hash rejects (IntegrityError, swallowed) when the digest is there
AddFileRecord(led, hash, path, st_size) ==
  IF IsDuplicate(led, hash) THEN led
  ELSE Append(led, [sha256_hash |-> hash, original_path |-> path,
                    file_size |-> st_size, file_name |-> PathName(path)])

---------------------------------------------------------------------------
(* The event handler and the pipeline                                      *)

IgnoredPatterns ==
  { <<".">>, <<"~">>,
    <<"t", "h", "u", "m", "b", "s", ".", "d", "b">>,
    <<".", "d", "s", "_", "s", "t", "o", "r", "e">>,
    <<"d", "e", "s", "k", "t", "o", "p", ".", "i", "n", "i">> }

IgnoredExtensions ==
  { <<".", "t", "m", "p">>,
    <<".", "c", "r", "d", "o", "w", "n", "l", "o", "a", "d">>,
    <<".", "p", "a", "r", "t">>,
    <<".", "d", "o", "w", "n", "l", "o", "a", "d">>,
    <<".", "s", "w", "p">>,
    <<".", "b", "a", "k">> }

\* mutant: the name is compared as it is spelled
ShouldIgnoreFileCaseSensitive(present, name) ==
  \/ ~present
  \/ \E pattern \in IgnoredPatterns : StartsWith(name, pattern)
  \/ Suffix(name) \in IgnoredExtensions

\* FileSorter.should_ignore_file
ShouldIgnoreFile(present, name) ==
  \/ ~present
  \/ \E pattern \in IgnoredPatterns : StartsWith(Lower(name), pattern)
  \/ Lower(Suffix(name)) \in IgnoredExtensions

\* the return statements of sort_file
Finish(p, out) ==
  /\ pc' = [pc EXCEPT ![p] = "done"]
  /\ outcome' = [outcome EXCEPT ![p] = out]
  /\ sample' = [sample EXCEPT ![p] = Nil]
  /\ cur_size' = [cur_size EXCEPT ![p] = NoSize]
  /\ rule_i' = [rule_i EXCEPT ![p] = 0]

Goto(p, label) ==
  /\ pc' = [pc EXCEPT ![p] = label]
  /\ UNCHANGED outcome

\* sort_file goes on to _apply_sorting_rules (the for loop over config.rules)
GotoRules(p) ==
  /\ Goto(p, IF ConfigRules = <<>> THEN "unmatched" ELSE "rules")
  /\ rule_i' = [rule_i EXCEPT ![p] = IF ConfigRules = <<>> THEN 0 ELSE 1]

\* the observer thread dispatches one event at a time: a handler runs to its
\* end before the next event is handled
Serial(p) ==
  /\ \A q \in Proc \ {p} : pc[q] \in {"idle", "done"}
  /\ p = "p2" => pc["p1"] # "idle"

\* mutant: the statistics are those of the current call only
SortFileEntryResets(p, f) ==
  /\ pc[p] = "idle"
  /\ ~ShouldIgnoreFile(Exists(SrcPath(f)), NameOf(f))
  /\ stats' = [files_processed |-> stats.files_processed + 1,
               duplicates_found |-> 0, files_sorted |-> 0, errors |-> 0]
  /\ file' = [file EXCEPT ![p] = f]
  /\ ord' = [ord EXCEPT ![p] = stats.files_processed + 1]
  /\ Goto(p, "prepare")
  /\ UNCHANGED <<fs, env_vars, ledger, gate_vars, file_hash, rule_i,
                 dest_path, trail, placed, faulted, quiet_del>>

\* SortingEventHandler.on_created for a file event, up to the first
\* statement of sort_file
SortFileEntry(p, f) ==
  /\ pc[p] = "idle"
  /\ ~ShouldIgnoreFile(Exists(SrcPath(f)), NameOf(f))
  /\ stats' = [stats EXCEPT !.files_processed = @ + 1]
  /\ file' = [file EXCEPT ![p] = f]
  /\ ord' = [ord EXCEPT ![p] = stats.files_processed + 1]
  /\ Goto(p, "prepare")
  /\ UNCHANGED <<fs, env_vars, ledger, gate_vars, file_hash, rule_i,
                 dest_path, trail, placed, faulted, quiet_del>>

OnCreated(p, f) == Serial(p) /\ SortFileEntry(p, f)

\* _prepare_file_for_sorting and wait_for_file_stability up to the first sleep
Prepare(p) ==
  /\ pc[p] = "prepare"
  /\ LET path == SrcPath(file[p])
     IN  IF ~Exists(path)
         THEN /\ Finish(p, "Vanished")
              /\ UNCHANGED <<file, ord, file_hash, dest_path, trail, placed>>
         ELSE /\ sample' = [sample EXCEPT ![p] =
                              <<size[fs[path]], mtime[fs[path]]>>]
              /\ Goto(p, "sleep1")
              /\ UNCHANGED <<file, ord, cur_size, file_hash, rule_i,
                             dest_path, trail, placed>>
  /\ UNCHANGED <<fs, env_vars, ledger, stats, faulted, quiet_del>>

\* mutant: the gate does not look whether the file is still there after the
\* first sleep and reports it stable
Wake1NoExistsCheck(p) ==
  /\ pc[p] = "sleep1"
  /\ Goto(p, "hash")
  /\ sample' = [sample EXCEPT ![p] = Nil]
  /\ UNCHANGED <<fs, env_vars, ledger, stats, file, ord, cur_size, file_hash,
                 rule_i, dest_path, trail, placed, faulted, quiet_del>>

\* wait_for_file_stability after the first sleep: the second sample and the
\* read probe; `oserr`: stat raises OSError, `locked`: open raises
Wake1(p) ==
  /\ pc[p] = "sleep1"
  /\ LET path == SrcPath(file[p])
     IN  IF ~Exists(path)
         THEN /\ Finish(p, "Vanished")
              /\ UNCHANGED faulted
         ELSE \E oserr \in BOOLEAN, locked \in BOOLEAN :
                IF oserr
                THEN /\ Finish(p, "Vanished")
                     /\ faulted' = [faulted EXCEPT ![p] = TRUE]
                ELSE /\ UNCHANGED faulted
                     /\ IF sample[p] = <<size[fs[path]], mtime[fs[path]]>>
                        THEN IF ~locked
                             THEN /\ Goto(p, "hash")
                                  /\ sample' = [sample EXCEPT ![p] = Nil]
                                  /\ UNCHANGED <<cur_size, rule_i>>
                             ELSE /\ Goto(p, "sleep2lock")
                                  /\ sample' = [sample EXCEPT ![p] = Nil]
                                  /\ cur_size' = [cur_size EXCEPT ![p] =
                                                    size[fs[path]]]
                                  /\ UNCHANGED rule_i
                        ELSE /\ Goto(p, "sleep2chg")
                             /\ sample' = [sample EXCEPT ![p] = Nil]
                             /\ cur_size' = [cur_size EXCEPT ![p] =
                                               size[fs[path]]]
                             /\ UNCHANGED rule_i
  /\ UNCHANGED <<fs, env_vars, ledger, stats, file, ord, file_hash,
                 dest_path, trail, placed, quiet_del>>

\* wait_for_file_stability after the second sleep, lock contention branch:
\* return file_path.exists() and st_size == current_size
Wake2Lock(p) ==
  /\ pc[p] = "sleep2lock"
  /\ LET path == SrcPath(file[p])
     IN  IF Exists(path) /\ size[fs[path]] = cur_size[p]
         THEN /\ Goto(p, "hash")
              /\ cur_size' = [cur_size EXCEPT ![p] = NoSize]
              /\ UNCHANGED <<sample, rule_i>>
         ELSE Finish(p, "Vanished")
  /\ UNCHANGED <<fs, env_vars, ledger, stats, file, ord, file_hash,
                 dest_path, trail, placed, faulted, quiet_del>>

\* mutant: the gate samples again after the second sleep and, while the file
\* keeps changing, goes back to sleep
Wake2ChgResamples(p) ==
  /\ pc[p] = "sleep2chg"
  /\ LET path == SrcPath(file[p])
     IN  IF Exists(path)
         THEN /\ sample' = [sample EXCEPT ![p] =
                              <<size[fs[path]], mtime[fs[path]]>>]
              /\ Goto(p, "sleep1")
              /\ UNCHANGED <<cur_size, rule_i>>
         ELSE Finish(p, "Vanished")
  /\ UNCHANGED <<fs, env_vars, ledger, stats, file, ord, file_hash,
                 dest_path, trail, placed, faulted, quiet_del>>

\* mutant: the changed branch compares the size with the second sample, as
\* the lock contention branch does
Wake2ChgSameSize(p) ==
  /\ pc[p] = "sleep2chg"
  /\ LET path == SrcPath(file[p])
     IN  IF Exists(path) /\ size[fs[path]] = cur_size[p]
         THEN /\ Goto(p, "hash")
              /\ UNCHANGED <<sample, cur_size, rule_i>>
         ELSE Finish(p, "Vanished")
  /\ UNCHANGED <<fs, env_vars, ledger, stats, file, ord, file_hash,
                 dest_path, trail, placed, faulted, quiet_del>>

\* wait_for_file_stability after the second sleep, file changed branch:
\* return file_path.exists(); current_size still holds the second sample when
\* the gate returns
Wake2Chg(p) ==
  /\ pc[p] = "sleep2chg"
  /\ IF Exists(SrcPath(file[p]))
     THEN /\ Goto(p, "hash")
          /\ UNCHANGED <<sample, cur_size, rule_i>>
     ELSE Finish(p, "Vanished")
  /\ UNCHANGED <<fs, env_vars, ledger, stats, file, ord, file_hash,
                 dest_path, trail, placed, faulted, quiet_del>>

\* mutant: an empty file is hashed like any other
HashEmptyToo(p) ==
  /\ pc[p] = "hash"
  /\ LET path == SrcPath(file[p])
     IN  IF ~Exists(path)
         THEN /\ Finish(p, "Unhashable")
              /\ UNCHANGED file_hash
         ELSE /\ file_hash' = [file_hash EXCEPT ![p] = Digest(fs[path])]
              /\ Goto(p, "dupcheck")
              /\ cur_size' = [cur_size EXCEPT ![p] = NoSize]
              /\ UNCHANGED <<sample, rule_i>>
  /\ UNCHANGED <<fs, env_vars, ledger, stats, file, ord, dest_path, trail,
                 placed, faulted, quiet_del>>

\* mutant: a failed read is counted as an error of the run
HashCountsError(p) ==
  /\ pc[p] = "hash"
  /\ LET path == SrcPath(file[p])
     IN  IF ~Exists(path) \/ StSize(path) = 0
         THEN /\ Finish(p, "Unhashable")
              /\ UNCHANGED <<file_hash, faulted, stats>>
         ELSE \E readerr \in BOOLEAN :
                IF readerr
                THEN /\ Finish(p, "Unhashable")
                     /\ faulted' = [faulted EXCEPT ![p] = TRUE]
                     /\ stats' = [stats EXCEPT !.errors = @ + 1]
                     /\ UNCHANGED file_hash
                ELSE /\ file_hash' = [file_hash EXCEPT ![p] = Digest(fs[path])]
                     /\ Goto(p, "dupcheck")
                     /\ cur_size' = [cur_size EXCEPT ![p] = NoSize]
                     /\ UNCHANGED <<sample, rule_i, faulted, stats>>
  /\ UNCHANGED <<fs, env_vars, ledger, file, ord, dest_path, trail,
                 placed, quiet_del>>

\* _calculate_file_hash and DatabaseManager.get_file_hash; `readerr`: the path
\* is not a regular file, or open or read raises (the file is locked or
\* unreadable)
Hash(p) ==
  /\ pc[p] = "hash"
  /\ LET path == SrcPath(file[p])
     IN  IF ~Exists(path) \/ StSize(path) = 0
         THEN /\ Finish(p, "Unhashable")
              /\ UNCHANGED <<file_hash, faulted>>
         ELSE \E readerr \in BOOLEAN :
                IF readerr
                THEN /\ Finish(p, "Unhashable")
                     /\ faulted' = [faulted EXCEPT ![p] = TRUE]
                     /\ UNCHANGED file_hash
                ELSE /\ file_hash' = [file_hash EXCEPT ![p] = Digest(fs[path])]
                     /\ Goto(p, "dupcheck")
                     /\ cur_size' = [cur_size EXCEPT ![p] = NoSize]
                     /\ UNCHANGED <<sample, rule_i, faulted>>
  /\ UNCHANGED <<fs, env_vars, ledger, stats, file, ord, dest_path, trail,
                 placed, quiet_del>>

\* mutant: the DatabaseError of is_duplicate is not caught and leaves
\* sort_file
DupCheckRaises(p) ==
  /\ pc[p] = "dupcheck"
  /\ \E dberr \in BOOLEAN :
       IF dberr
       THEN /\ pc' = [pc EXCEPT ![p] = "raised"]
            /\ faulted' = [faulted EXCEPT ![p] = TRUE]
            /\ UNCHANGED <<outcome, rule_i>>
       ELSE /\ UNCHANGED faulted
            /\ IF IsDuplicate(ledger, file_hash[p])
               THEN /\ Goto(p, "dup")
                    /\ UNCHANGED rule_i
               ELSE GotoRules(p)
  /\ UNCHANGED <<fs, env_vars, ledger, stats, file, ord, gate_vars,
                 file_hash, dest_path, trail, placed, quiet_del>>

\* _handle_duplicate_if_exists up to the call of handle_duplicate; `dberr`:
\* is_duplicate raises DatabaseError, which is logged and answered False
DupCheck(p) ==
  /\ pc[p] = "dupcheck"
  /\ \E dberr \in BOOLEAN :
       IF dberr
       THEN /\ GotoRules(p)
            /\ faulted' = [faulted EXCEPT ![p] = TRUE]
       ELSE /\ UNCHANGED faulted
            /\ IF IsDuplicate(ledger, file_hash[p])
               THEN /\ Goto(p, "dup")
                    /\ UNCHANGED rule_i
               ELSE GotoRules(p)
  /\ UNCHANGED <<fs, env_vars, ledger, stats, file, ord, gate_vars,
                 file_hash, dest_path, trail, placed, quiet_del>>

\* handle_duplicate up to safe_move: get_duplicate_info (`dberr`: it raises),
\* the counter, get_unique_path.  Every exception makes it return False.
HandleDuplicate(p) ==
  /\ pc[p] = "dup"
  /\ \E dberr \in BOOLEAN :
       IF dberr
       THEN /\ GotoRules(p)
            /\ faulted' = [faulted EXCEPT ![p] = TRUE]
            /\ UNCHANGED <<stats, dest_path, placed>>
       ELSE LET dest == GetUniquePath(fs, <<DuplicateFolder,
                                            NameOf(file[p]), 0>>)
            IN  /\ stats' = [stats EXCEPT !.duplicates_found = @ + 1]
                /\ UNCHANGED faulted
                /\ IF dest = Raise
                   THEN /\ GotoRules(p)
                        /\ placed' = [placed EXCEPT ![p] = "failed"]
                        /\ UNCHANGED dest_path
                   ELSE /\ Goto(p, "dupmove")
                        /\ dest_path' = [dest_path EXCEPT ![p] = dest]
                        /\ UNCHANGED <<rule_i, placed>>
  /\ UNCHANGED <<fs, env_vars, ledger, file, ord, gate_vars, file_hash,
                 trail, quiet_del>>

\* mutant: the file is copied to the destination and left at the source
SafeMoveCopies(fsys, source, destination, oserr) ==
  IF fsys[source] = NoFile \/ oserr THEN fsys
  ELSE [fsys EXCEPT ![destination] = fsys[source]]

\* FileOperations.safe_move: Path.rename, which replaces what is at the
\* destination; `oserr`: rename raises OSError
SafeMove(fsys, source, destination, oserr) ==
  IF fsys[source] = NoFile \/ oserr THEN fsys
  ELSE [fsys EXCEPT ![destination] = fsys[source], ![source] = NoFile]

\* whether safe_move returns True
SafeMoveOk(fsys, source, oserr) == fsys[source] # NoFile /\ ~oserr

\* handle_duplicate from safe_move on, and the return of sort_file after it
DupMove(p) ==
  /\ pc[p] = "dupmove"
  /\ \E oserr \in BOOLEAN :
       LET path == SrcPath(file[p])
       IN  /\ fs' = SafeMove(fs, path, dest_path[p], oserr)
           /\ faulted' = [faulted EXCEPT ![p] = @ \/ oserr]
           /\ IF SafeMoveOk(fs, path, oserr)
              THEN /\ Finish(p, "Diverted")
                   /\ placed' = [placed EXCEPT ![p] = "moved"]
              ELSE /\ GotoRules(p)
                   /\ placed' = [placed EXCEPT ![p] = "failed"]
                   /\ UNCHANGED gate_vars
  /\ UNCHANGED <<env_vars, ledger, stats, file, ord, file_hash, dest_path,
                 trail, quiet_del>>

\* mutant: a failed text extraction ends the evaluation of the rules
ApplyRuleStopsOnFailure(p) ==
  /\ pc[p] = "rules"
  /\ \E text \in {NoText, TextOf(file[p])} :
       LET path == SrcPath(file[p])
           rule == ConfigRules[rule_i[p]]
           res  == MatchRule(Exists(path), NameOf(file[p]), rule, text)
           dest == GetUniquePath(fs, <<rule.dest, NameOf(file[p]), 0>>)
       IN  /\ trail' = [trail EXCEPT ![p] =
                          Append(@, [rule |-> rule_i[p],
                                     matched |-> res.matched,
                                     calls |-> res.calls])]
           /\ IF res.matched
              THEN IF dest = Raise
                   THEN /\ Goto(p, "unmatched")
                        /\ placed' = [placed EXCEPT ![p] = "failed"]
                        /\ UNCHANGED <<rule_i, dest_path>>
                   ELSE /\ Goto(p, "rulemove")
                        /\ dest_path' = [dest_path EXCEPT ![p] = dest]
                        /\ UNCHANGED <<rule_i, placed>>
              ELSE /\ IF rule_i[p] < Len(ConfigRules)
                         /\ ~(res.calls = 1 /\ text = NoText)
                      THEN /\ Goto(p, "rules")
                           /\ rule_i' = [rule_i EXCEPT ![p] = @ + 1]
                      ELSE /\ Goto(p, "unmatched")
                           /\ UNCHANGED rule_i
                   /\ UNCHANGED <<dest_path, placed>>
  /\ UNCHANGED <<fs, env_vars, ledger, stats, file, ord, gate_vars,
                 file_hash, faulted, quiet_del>>

\* one iteration of the loop of _apply_sorting_rules: match_rule and, if it
\* matched, _move_file_with_rule up to safe_move (get_unique_path).  `text`
\* is what extract_text returns if match_rule calls it (NoText: it failed).
ApplyRule(p) ==
  /\ pc[p] = "rules"
  /\ \E text \in {NoText, TextOf(file[p])} :
       LET path == SrcPath(file[p])
           rule == ConfigRules[rule_i[p]]
           res  == MatchRule(Exists(path), NameOf(file[p]), rule, text)
           dest == GetUniquePath(fs, <<rule.dest, NameOf(file[p]), 0>>)
       IN  /\ trail' = [trail EXCEPT ![p] =
                          Append(@, [rule |-> rule_i[p],
                                     matched |-> res.matched,
                                     calls |-> res.calls])]
           /\ IF res.matched
              THEN IF dest = Raise
                   THEN /\ Goto(p, "unmatched")
                        /\ placed' = [placed EXCEPT ![p] = "failed"]
                        /\ UNCHANGED <<rule_i, dest_path>>
                   ELSE /\ Goto(p, "rulemove")
                        /\ dest_path' = [dest_path EXCEPT ![p] = dest]
                        /\ UNCHANGED <<rule_i, placed>>
              ELSE /\ IF rule_i[p] < Len(ConfigRules)
                      THEN /\ Goto(p, "rules")
                           /\ rule_i' = [rule_i EXCEPT ![p] = @ + 1]
                      ELSE /\ Goto(p, "unmatched")
                           /\ UNCHANGED rule_i
                   /\ UNCHANGED <<dest_path, placed>>
  /\ UNCHANGED <<fs, env_vars, ledger, stats, file, ord, gate_vars,
                 file_hash, faulted, quiet_del>>

\* _move_file_with_rule: safe_move
RuleMove(p) ==
  /\ pc[p] = "rulemove"
  /\ \E oserr \in BOOLEAN :
       LET path == SrcPath(file[p])
       IN  /\ fs' = SafeMove(fs, path, dest_path[p], oserr)
           /\ faulted' = [faulted EXCEPT ![p] = @ \/ oserr]
           /\ IF SafeMoveOk(fs, path, oserr)
              THEN /\ Goto(p, "rulerec")
                   /\ placed' = [placed EXCEPT ![p] = "moved"]
              ELSE /\ Goto(p, "unmatched")
                   /\ placed' = [placed EXCEPT ![p] = "failed"]
  /\ UNCHANGED <<env_vars, ledger, stats, file, ord, gate_vars, file_hash,
                 rule_i, dest_path, trail, quiet_del>>

\* mutant: the record is made with the path the event named
RuleRecordSourcePath(p) ==
  /\ pc[p] = "rulerec"
  /\ ledger' = AddFileRecord(ledger, file_hash[p], SrcPath(file[p]),
                             StSize(dest_path[p]))
  /\ stats' = [stats EXCEPT !.files_sorted = @ + 1]
  /\ Finish(p, "Sorted")
  /\ UNCHANGED <<fs, env_vars, file, ord, file_hash, dest_path, trail,
                 placed, faulted, quiet_del>>

\* _move_file_with_rule after a successful move: add_file_record with the
\* destination path, then the files_sorted counter of sort_file; `dberr`:
\* add_file_record raises DatabaseError, and _move_file_with_rule returns False
RuleRecord(p) ==
  /\ pc[p] = "rulerec"
  /\ \E dberr \in BOOLEAN :
       IF dberr
       THEN /\ Goto(p, "unmatched")
            /\ faulted' = [faulted EXCEPT ![p] = TRUE]
            /\ UNCHANGED <<ledger, stats, gate_vars, rule_i>>
       ELSE /\ ledger' = AddFileRecord(ledger, file_hash[p], dest_path[p],
                                       StSize(dest_path[p]))
            /\ stats' = [stats EXCEPT !.files_sorted = @ + 1]
            /\ Finish(p, "Sorted")
            /\ UNCHANGED faulted
  /\ UNCHANGED <<fs, env_vars, file, ord, file_hash, dest_path, trail,
                 placed, quiet_del>>

\* _handle_unmatched_file: add_file_record with the source path; `dberr`:
\* it raises DatabaseError, which is logged
Unmatched(p) ==
  /\ pc[p] = "unmatched"
  /\ \E dberr \in BOOLEAN :
       IF dberr
       THEN /\ faulted' = [faulted EXCEPT ![p] = TRUE]
            /\ UNCHANGED ledger
       ELSE /\ ledger' = AddFileRecord(ledger, file_hash[p],
                                       SrcPath(file[p]),
                                       StSize(SrcPath(file[p])))
            /\ UNCHANGED faulted
  /\ Finish(p, "Retained")
  /\ UNCHANGED <<fs, env_vars, stats, file, ord, file_hash, dest_path,
                 trail, placed, quiet_del>>

\* the statements of one sort_file call
SortFileStep(p) ==
  \/ Prepare(p) \/ Wake1(p) \/ Wake2Lock(p) \/ Wake2Chg(p)
  \/ Hash(p) \/ DupCheck(p) \/ HandleDuplicate(p) \/ DupMove(p)
  \/ ApplyRule(p) \/ RuleMove(p) \/ RuleRecord(p) \/ Unmatched(p)

---------------------------------------------------------------------------
(* The program as main() runs it: one observer thread, one event at a time *)

Next ==
  \/ \E f \in Files : Write(f)
  \/ \E f \in Files : Delete(f)
  \/ \E p \in Proc, f \in Files : OnCreated(p, f)
  \/ \E p \in Proc : Prepare(p)
  \/ \E p \in Proc : Wake1(p)
  \/ \E p \in Proc : Wake2Lock(p)
  \/ \E p \in Proc : Wake2Chg(p)
  \/ \E p \in Proc : Hash(p)
  \/ \E p \in Proc : DupCheck(p)
  \/ \E p \in Proc : HandleDuplicate(p)
  \/ \E p \in Proc : DupMove(p)
  \/ \E p \in Proc : ApplyRule(p)
  \/ \E p \in Proc : RuleMove(p)
  \/ \E p \in Proc : RuleRecord(p)
  \/ \E p \in Proc : Unmatched(p)

Spec == Init /\ [][Next]_vars

---------------------------------------------------------------------------
(* sort_file called for several events at once: the concurrent delivery    *)
(* that section 5 of the design assumes.  Nothing in FileSorter or         *)
(* DatabaseManager holds a lock across a call, so the steps of two calls   *)
(* interleave freely.                                                      *)

Started(p) == p = "p2" => pc["p1"] # "idle"

OnCreatedConcurrent(p, f) == Started(p) /\ SortFileEntry(p, f)

NextConc ==
  \/ \E f \in Files : Write(f)
  \/ \E f \in Files : Delete(f)
  \/ \E p \in Proc, f \in Files : OnCreatedConcurrent(p, f)
  \/ \E p \in Proc : Prepare(p)
  \/ \E p \in Proc : Wake1(p)
  \/ \E p \in Proc : Wake2Lock(p)
  \/ \E p \in Proc : Wake2Chg(p)
  \/ \E p \in Proc : Hash(p)
  \/ \E p \in Proc : DupCheck(p)
  \/ \E p \in Proc : HandleDuplicate(p)
  \/ \E p \in Proc : DupMove(p)
  \/ \E p \in Proc : ApplyRule(p)
  \/ \E p \in Proc : RuleMove(p)
  \/ \E p \in Proc : RuleRecord(p)
  \/ \E p \in Proc : Unmatched(p)

SpecConc == Init /\ [][NextConc]_vars

---------------------------------------------------------------------------
(* get_unique_path called directly on an arbitrary destination directory   *)

InitUnique ==
  /\ \E d \in RuleDests \cup {DuplicateFolder}, n \in Names :
       \E taken \in SUBSET (0..MaxAttempts) :
         fs = [path \in Paths |->
                 IF path[1] = d /\ path[2] = n /\ path[3] \in taken
                 THEN Foreign ELSE NoFile]
  /\ size = [f \in Files |-> 0]
  /\ mtime = [f \in Files |-> 0]
  /\ ledger = <<>>
  /\ stats = [files_processed |-> 0, duplicates_found |-> 0,
              files_sorted |-> 0, errors |-> 0]
  /\ InitLocals

\* get_unique_path(destination_path) with the default max_attempts
CallGetUniquePath(path) ==
  /\ probe = Nil
  /\ probe' = <<path, GetUniquePath(fs, path)>>
  /\ UNCHANGED <<fs, size, mtime, ledger, stats, pc, locals, outcome,
                 faulted, quiet_del>>

NextUnique ==
  \E d \in RuleDests \cup {DuplicateFolder}, n \in Names :
    CallGetUniquePath(<<d, n, 0>>)

SpecUnique == InitUnique /\ [][NextUnique]_vars

---------------------------------------------------------------------------
(* match_rule called directly on any rule and any file                     *)

\* the file names: Inv.PDF, n.txt, x.pdf and inv (no suffix)
MatchNames ==
  { <<"I", "n", "v", ".", "P", "D", "F">>,
    <<"n", ".", "t", "x", "t">>,
    <<"x", ".", "p", "d", "f">>,
    <<"i", "n", "v">> }

\* what extract_text can return for a file: None, or its text
MatchTexts == {NoText, <<"T", "o", "t", "a", "l">>}

\* the criteria a rule of rules.yml can carry, group by group: left out,
\* empty, or a list
RawExtensions ==
  { Absent, List(<<>>),
    List(<< <<"P", "D", "F">> >>),
    List(<< <<".", "t", "x", "t">>, <<".", "p", "d", "f">> >>) }

RawNameKeywords ==
  { Absent,
    List(<< <<" ">> >>),
    List(<< <<" ", "I", "N", "V">> >>),
    List(<< <<"n", ".", "t">>, <<"z">> >>) }

RawContentKeywords ==
  { Absent,
    List(<< <<" ">> >>),
    List(<< <<"s", "u", "m">> >>),
    List(<< <<"s", "u", "m">>, <<"T", "O", "T", " ">> >>) }

\* the rules as _parse_sorting_rules builds them
MatchRules ==
  { PostInit([name |-> "R", dest |-> "D1", extensions |-> e,
              name_contains |-> n, content_contains |-> c]) :
      e \in RawExtensions, n \in RawNameKeywords, c \in RawContentKeywords }

\* match_rule(file_path, rule); probe keeps the call and whether it matched
CallMatchRule(present, name, rule, text) ==
  /\ probe = Nil
  /\ probe' = <<present, name, rule, text,
                MatchRule(present, name, rule, text).matched>>
  /\ UNCHANGED <<fs, size, mtime, ledger, stats, pc, locals, outcome,
                 faulted, quiet_del>>

NextMatch ==
  \E present \in BOOLEAN, name \in MatchNames, rule \in MatchRules,
     text \in MatchTexts :
    CallMatchRule(present, name, rule, text)

SpecMatch == Init /\ [][NextMatch]_vars

---------------------------------------------------------------------------
(* load_config on any rules.yml of up to MaxRules rules                    *)

\* the criteria one entry of rules.yml can carry
RawCriteria ==
  [extensions : {Absent, List(<<>>), List(<< <<"P", "D", "F">> >>)},
   name_contains : {Absent, List(<< <<" ">> >>),
                    List(<< <<" ", "I", "N", "V">> >>)},
   content_contains : {Absent, List(<< <<"t", "o", "t">> >>)}]

\* the names of the entries, all different: r1 is the first entry
RuleNames == <<"r1", "r2", "r3", "r4", "r5">>

\* the entries of a rules.yml with these criteria, in configuration order
RawRulesOf(crit) ==
  [i \in 1..Len(crit) |->
     [name |-> RuleNames[i], dest |-> "D1",
      extensions |-> crit[i].extensions,
      name_contains |-> crit[i].name_contains,
      content_contains |-> crit[i].content_contains]]

\* the store and the folders when the configuration is loaded
InitLoad ==
  /\ fs = [path \in Paths |->
             IF \E f \in Files : path = SrcPath(f)
             THEN CHOOSE f \in Files : path = SrcPath(f)
             ELSE NoFile]
  /\ size = [f \in Files |-> 0]
  /\ mtime = [f \in Files |-> 0]
  /\ ledger = <<>>
  /\ stats = [files_processed |-> 0, duplicates_found |-> 0,
              files_sorted |-> 0, errors |-> 0]
  /\ InitLocals

\* load_config: _parse_sorting_rules, then Config.__post_init__ sorts the
\* rules; probe keeps the entries read, whether ConfigurationError was raised
\* and Config.rules.  The entries have a name of their own and a
\* destination, and neither SortingRule.__post_init__ nor
\* _parse_sorting_rules raises for a criteria list that is empty or holds a
\* blank string: nothing raises.
LoadConfig(raw) ==
  /\ probe = Nil
  /\ probe' = <<raw, [raised |-> FALSE,
                      rules |-> SortRules(ParseSortingRules(raw))]>>
  /\ UNCHANGED <<fs, size, mtime, ledger, stats, pc, locals, outcome,
                 faulted, quiet_del>>

NextLoad ==
  /\ probe = Nil
  /\ \E n \in 0..MaxRules : \E crit \in [1..n -> RawCriteria] :
       LoadConfig(RawRulesOf(crit))

SpecLoad == InitLoad /\ [][NextLoad]_vars

---------------------------------------------------------------------------
(* Concurrent calls while files keep arriving: after a file was relocated, *)
(* another copy of it is moved into the source folder under the same name  *)

Arrive(f) ==
  /\ fs[SrcPath(f)] = NoFile
  /\ \E path \in Paths : path[1] # SourceFolder /\ fs[path] = f
  /\ fs' = [fs EXCEPT ![SrcPath(f)] = f]
  /\ UNCHANGED <<env_vars, ledger, stats, pc, locals, outcome, faulted,
                 quiet_del>>

NextArrive == NextConc \/ \E f \in Files : Arrive(f)

SpecArrive == InitLoad /\ [][NextArrive]_vars

---------------------------------------------------------------------------
(* The event handler alone, on files of any name                           *)

\* the names of the files the events are about: hidden and system files,
\* temporary and download files, and names that come close to them
EventNames ==
  { <<".", "x">>,
    <<"~", "x">>,
    <<"t", "h", "u", "m", "b", "s", ".", "d", "b">>,
    <<"T", "h", "u", "m", "b", "s", ".", "D", "B">>,
    <<"t", "h", "u", "m", "b", "s", ".", "d", "b", "x">>,
    <<"d", "e", "s", "k", "t", "o", "p", ".", "i", "n", "i">>,
    <<".", "d", "s", "_", "s", "t", "o", "r", "e">>,
    <<"x", ".", "t", "m", "p">>,
    <<"x", ".", "T", "M", "P">>,
    <<"x", ".", "c", "r", "d", "o", "w", "n", "l", "o", "a", "d">>,
    <<"x", ".", "p", "a", "r", "t">>,
    <<"x", ".", "d", "o", "w", "n", "l", "o", "a", "d">>,
    <<"x", ".", "s", "w", "p">>,
    <<"x", ".", "b", "a", "k">>,
    <<"t", "m", "p">>,
    <<"x", "~">>,
    <<"x", ".", "t", "m", "p", ".", "t", "x", "t">>,
    <<"x", "t", "h", "u", "m", "b", "s", ".", "d", "b">>,
    <<"x", ".", "b", "a", "k", ".">>,
    <<"n", ".", "t", "x", "t">>,
    <<"I", "n", "v", ".", "P", "D", "F">> }

\* the events the handler can be given, <<kind, parent of the path, name of
\* the path, is_directory>>: a created event carries src_path, a moved event
\* dest_path; the path is in the source folder or elsewhere
Events ==
  {"created", "moved"} \X {SourceFolder, "D1"} \X EventNames \X BOOLEAN

\* SortingEventHandler.on_created / on_moved for a path that exists, up to
\* the first statement of sort_file; probe keeps the event and what the
\* handler did with it.  Both return at once for a directory event; only
\* on_moved compares the parent of the path with config.source_folder.
OnEvent(event) ==
  /\ IF event[4]
     THEN /\ probe' = <<event, "directory">>
          /\ UNCHANGED stats
     ELSE IF event[1] = "moved" /\ event[2] # SourceFolder
     THEN /\ probe' = <<event, "outside">>
          /\ UNCHANGED stats
     ELSE IF ShouldIgnoreFile(TRUE, event[3])
     THEN /\ probe' = <<event, "ignored">>
          /\ UNCHANGED stats
     ELSE /\ stats.files_processed < MaxEvents
          /\ probe' = <<event, "sort_file">>
          /\ stats' = [stats EXCEPT !.files_processed = @ + 1]
  /\ UNCHANGED <<fs, size, mtime, ledger, pc, locals, outcome, faulted,
                 quiet_del>>

NextEvent == \E event \in Events : OnEvent(event)

SpecEvent == Init /\ [][NextEvent]_vars

---------------------------------------------------------------------------
(* add_file_record called from several connections at once                 *)

\* the digests the callers pass
LedgerDigests == {<<"A", 1>>, <<"A", 2>>}

\* the table as a new store has it, or holding one record already
InitLedger ==
  /\ fs = [path \in Paths |->
             IF \E f \in Files : path = SrcPath(f)
             THEN CHOOSE f \in Files : path = SrcPath(f)
             ELSE NoFile]
  /\ size = [f \in Files |-> 0]
  /\ mtime = [f \in Files |-> 0]
  /\ ledger \in {<<>>, AddFileRecord(<<>>, <<"A", 1>>, SrcPath("f1"), 0)}
  /\ stats = [files_processed |-> 0, duplicates_found |-> 0,
              files_sorted |-> 0, errors |-> 0]
  /\ InitLocals

\* the connection holds the write lock of the database: its INSERT has run
\* and its transaction is not committed yet
HoldsWriteLock(p) == pc[p] = "commit"

\* add_file_record(file_hash, file_path) is called
AddFileRecordCall(p, hash, path) ==
  /\ pc[p] = "idle"
  /\ pc' = [pc EXCEPT ![p] = "connect"]
  /\ file_hash' = [file_hash EXCEPT ![p] = hash]
  /\ dest_path' = [dest_path EXCEPT ![p] = path]
  /\ UNCHANGED <<fs, env_vars, ledger, stats, file, ord, gate_vars, rule_i,
                 outcome, trail, placed, faulted, quiet_del>>

\* get_connection: sqlite3.connect and the PRAGMAs; `dberr`: sqlite3.Error,
\* raised as DatabaseError
Connect(p) ==
  /\ pc[p] = "connect"
  /\ \E dberr \in BOOLEAN :
       IF dberr
       THEN /\ pc' = [pc EXCEPT ![p] = "done"]
            /\ outcome' = [outcome EXCEPT ![p] = "DatabaseError"]
            /\ faulted' = [faulted EXCEPT ![p] = TRUE]
       ELSE /\ pc' = [pc EXCEPT ![p] = "insert"]
            /\ UNCHANGED <<outcome, faulted>>
  /\ UNCHANGED <<fs, env_vars, ledger, stats, file, ord, gate_vars,
                 file_hash, rule_i, dest_path, trail, placed, quiet_del>>

\* the INSERT while another connection holds the write lock: the busy
\* handler waits (timeout=10.0), or gives up with "database is locked",
\* raised as DatabaseError
InsertBusy(p) ==
  /\ pc[p] = "insert"
  /\ \E q \in Proc \ {p} : HoldsWriteLock(q)
  /\ \E timeout \in BOOLEAN :
       IF timeout
       THEN /\ pc' = [pc EXCEPT ![p] = "done"]
            /\ outcome' = [outcome EXCEPT ![p] = "DatabaseError"]
            /\ faulted' = [faulted EXCEPT ![p] = TRUE]
            /\ UNCHANGED placed
       ELSE /\ placed' = [placed EXCEPT ![p] = "waited"]
            /\ UNCHANGED <<pc, outcome, faulted>>
  /\ UNCHANGED <<fs, env_vars, ledger, stats, file, ord, gate_vars,
                 file_hash, rule_i, dest_path, trail, quiet_del>>

\* the INSERT with the write lock free: the UNIQUE constraint of sha256_hash
\* rejects it (IntegrityError, answered False) or the row is written in the
\* connection's transaction
InsertRow(p) ==
  /\ pc[p] = "insert"
  /\ \A q \in Proc \ {p} : ~HoldsWriteLock(q)
  /\ IF AddFileRecord(ledger, file_hash[p], dest_path[p],
                      StSize(dest_path[p])) = ledger
     THEN /\ pc' = [pc EXCEPT ![p] = "done"]
          /\ outcome' = [outcome EXCEPT ![p] = "False"]
     ELSE /\ pc' = [pc EXCEPT ![p] = "commit"]
          /\ UNCHANGED outcome
  /\ UNCHANGED <<fs, env_vars, ledger, stats, file, ord, gate_vars,
                 file_hash, rule_i, dest_path, trail, placed, faulted,
                 quiet_del>>

\* get_connection after the yield: conn.commit(); `dberr`: it fails, the
\* transaction is rolled back and DatabaseError is raised
Commit(p) ==
  /\ pc[p] = "commit"
  /\ \E dberr \in BOOLEAN :
       IF dberr
       THEN /\ outcome' = [outcome EXCEPT ![p] = "DatabaseError"]
            /\ faulted' = [faulted EXCEPT ![p] = TRUE]
            /\ UNCHANGED ledger
       ELSE /\ ledger' = AddFileRecord(ledger, file_hash[p], dest_path[p],
                                       StSize(dest_path[p]))
            /\ outcome' = [outcome EXCEPT ![p] = "True"]
            /\ UNCHANGED faulted
  /\ pc' = [pc EXCEPT ![p] = "done"]
  /\ UNCHANGED <<fs, env_vars, stats, file, ord, gate_vars, file_hash,
                 rule_i, dest_path, trail, placed, quiet_del>>

NextLedger ==
  \/ \E p \in Proc, hash \in LedgerDigests, f \in Files :
       AddFileRecordCall(p, hash, SrcPath(f))
  \/ \E p \in Proc : Connect(p)
  \/ \E p \in Proc : InsertBusy(p)
  \/ \E p \in Proc : InsertRow(p)
  \/ \E p \in Proc : Commit(p)

SpecLedger == InitLedger /\ [][NextLedger]_vars

---------------------------------------------------------------------------
(* Shutdown: main() on KeyboardInterrupt                                   *)

\* probe keeps how far the shutdown of main() has come
Stopping == <<"stopping">>
Exited == <<"exited">>

InFlight(p) == pc[p] \notin {"idle", "done"}

\* KeyboardInterrupt in the main loop; the finally block calls
\* observer.stop(), after which the observer thread takes no new event
RequestStop ==
  /\ probe = Nil
  /\ probe' = Stopping
  /\ UNCHANGED <<fs, size, mtime, ledger, stats, pc, locals, outcome,
                 faulted, quiet_del>>

\* observer.join(timeout=5) returns because the observer thread has ended;
\* main() logs the statistics and returns
ExitJoined ==
  /\ probe = Stopping
  /\ \A p \in Proc : ~InFlight(p)
  /\ probe' = Exited
  /\ UNCHANGED <<fs, size, mtime, ledger, stats, pc, locals, outcome,
                 faulted, quiet_del>>

\* observer.join(timeout=5) returns after 5 seconds while the observer
\* thread, a daemon thread, is still inside sort_file; main() returns and the
\* interpreter ends the thread where it stands
ExitTimeout ==
  /\ probe = Stopping
  /\ \E p \in Proc : InFlight(p)
  /\ probe' = Exited
  /\ UNCHANGED <<fs, size, mtime, ledger, stats, pc, locals, outcome,
                 faulted, quiet_del>>

\* the program until its process has exited; once the observer is stopped
\* no handler is started
Running ==
  /\ probe # Exited
  /\ Next
  /\ probe = Stopping => \A p \in Proc : pc[p] = "idle" => pc'[p] = "idle"

NextStop == Running \/ RequestStop \/ ExitJoined \/ ExitTimeout

SpecStop == Init /\ [][NextStop]_vars

---------------------------------------------------------------------------
(* Properties                                                              *)

Last(seq) == seq[Len(seq)]

\* the call ended treating its file as an original
Original(p) == pc[p] = "done" /\ outcome[p] \in {"Sorted", "Retained"}

\* two finished calls that fingerprinted two different files to one digest
SameContent(p, q) ==
  /\ p # q
  /\ file[p] # file[q]
  /\ file_hash[p] # Nil
  /\ file_hash[p] = file_hash[q]

\* the destination folders held nothing when the sorter started
NoForeign == \A path \in Paths : fs[path] # Foreign

\* the file is somewhere (nobody deleted it)
Present(f) == \E path \in Paths : fs[path] = f

InDir(f, dirs) == \E path \in Paths : path[1] \in dirs /\ fs[path] = f

\* every candidate name of `name` in `dir` is taken
Exhausted(fsys, dir, name) ==
  \A k \in 0..(MaxAttempts - 1) : fsys[<<dir, name, k>>] # NoFile

\* C1: two files with byte-identical content, handled by concurrently running
\* sort_file calls, are never both treated as originals (Sorted or Retained).
\* Stated for calls into which no ledger or OS fault was injected, for
\* files nobody deleted and for destination folders that held no file
\* beforehand: what is left to break it is the interleaving alone.
C1_NeverTwoOriginals ==
  \A p \in Proc, q \in Proc :
    (/\ SameContent(p, q)
     /\ ~faulted[p] /\ ~faulted[q]
     /\ Present(file[p]) /\ Present(file[q])
     /\ NoForeign)
      => ~(Original(p) /\ Original(q))


\* the rows of the ledger that carry a digest
RowsOf(hash) == {i \in 1..Len(ledger) : ledger[i].sha256_hash = hash}

\* C2: when two files with the same content and different names are
\* processed one after the other, the second file is never in a rule
\* destination, and once both calls have returned the ledger holds exactly
\* one record for the digest and the second file is in the duplicate folder.
\* Stated for calls into which no ledger or OS fault was injected and for
\* files nobody deleted.
C2_SecondIsDiverted ==
  \A p \in Proc, q \in Proc :
    (/\ SameContent(p, q)
     /\ pc[p] = "done" /\ ord[p] < ord[q]
     /\ ~faulted[p] /\ ~faulted[q]
     /\ Present(file[p]) /\ Present(file[q]))
      => /\ ~InDir(file[q], RuleDests)
         /\ pc[q] = "done" =>
              /\ Cardinality(RowsOf(file_hash[q])) = 1
              /\ InDir(file[q], {DuplicateFolder})

\* C3: the ledger holds at most one record per digest
C3_OneRecordPerDigest ==
  \A i \in 1..Len(ledger), j \in 1..Len(ledger) :
    ledger[i].sha256_hash = ledger[j].sha256_hash => i = j

\* C3: every step keeps the records the ledger holds, as they are; the step
\* that diverts a duplicate adds none
C3_RecordsKept ==
  /\ Len(ledger') >= Len(ledger)
  /\ \A i \in 1..Len(ledger) : ledger'[i] = ledger[i]
  /\ \A p \in Proc :
       (outcome[p] # "Diverted" /\ outcome'[p] = "Diverted")
         => ledger' = ledger

\* C3: the ledger is append-only and keyed by digest: at most one record per
\* digest in every reachable state, no step changes or removes a record, and
\* diverting a duplicate leaves the ledger as it is.
C3_LedgerAppendOnly == []C3_OneRecordPerDigest /\ [][C3_RecordsKept]_vars

\* C3 witness: a duplicate has been diverted and the ledger holds the one
\* record of the original, made for the other file at its final path
C3_Witness ==
  \E p \in Proc, q \in Proc :
    /\ SameContent(p, q)
    /\ outcome[q] = "Diverted"
    /\ Len(ledger) = 1
    /\ ledger[1].sha256_hash = file_hash[q]
    /\ fs[ledger[1].original_path] = file[p]
    /\ ledger[1].file_name = NameOf(file[p])
    /\ ledger[1].file_size = size[file[p]]


\* C4: the trail of a call lists the rules in Config.rules order from the
\* first one on, and only its last entry can be a match
C4_TrailInOrder(p) ==
  /\ Len(trail[p]) <= Len(ConfigRules)
  /\ \A i \in 1..Len(trail[p]) :
       /\ trail[p][i].rule = i
       /\ i < Len(trail[p]) => ~trail[p][i].matched

\* C4: Config.rules is in descending priority; every call evaluates the rules
\* in that order and stops at the first one match_rule reports as matched; a
\* file in a rule destination was put there by a call whose last (and only)
\* matched rule has that destination.  Inv.PDF, which matches the
\* one-condition rule PDFs (first in rules.yml) and the two-condition rule
\* Invoices, is never in the destination of PDFs.
C4_FirstMatchWins ==
  /\ \A i \in 1..Len(ConfigRules), j \in 1..Len(ConfigRules) :
       i < j => ConfigRules[i].priority >= ConfigRules[j].priority
  /\ \A p \in Proc : C4_TrailInOrder(p)
  /\ \A path \in Paths :
       (path[1] \in RuleDests /\ fs[path] \in Files)
         => \E p \in Proc :
              /\ file[p] = fs[path]
              /\ dest_path[p] = path
              /\ placed[p] = "moved"
              /\ trail[p] # <<>>
              /\ Last(trail[p]).matched
              /\ ConfigRules[Last(trail[p]).rule].dest = path[1]
  /\ ~InDir("f1", {"D1"})

\* C4 witness: Inv.PDF is in the destination of Invoices after Summaries,
\* Totals and Reports were rejected; PDFs, which would match it too, was not evaluated
C4_Witness ==
  \E p \in Proc :
    /\ file[p] = "f1"
    /\ InDir("f1", {"D2"})
    /\ Len(trail[p]) = 4
    /\ ConfigRules[4].name = "Invoices"
    /\ trail[p][4].matched
    /\ ConfigRules[5].name = "PDFs"
    /\ MatchRule(TRUE, NameOf("f1"), ConfigRules[5], NoText).matched

\* the three cheap rejections of match_rule, computed from the rule and the
\* file name alone
ExtensionFails(name, rule) ==
  /\ Truthy(rule.extensions)
  /\ \A i \in 1..Len(rule.extensions.items) :
       rule.extensions.items[i] # Lower(Suffix(name))

NameFails(name, rule) ==
  /\ Truthy(rule.name_contains)
  /\ \A i \in 1..Len(rule.name_contains.items) :
       ~Contains(Lower(name), rule.name_contains.items[i])

ContentOnNonPdf(name, rule) ==
  /\ Truthy(rule.content_contains)
  /\ Lower(Suffix(name)) # <<".", "p", "d", "f">>

\* C5: whenever match_rule is called for a file and a rule whose extension
\* check fails, whose file name check fails, or which has content keywords
\* while the file's suffix is not .pdf, the rule is rejected and extract_text
\* was not called.
C5_NoExtractionWhenCheapCheckFails ==
  \A p \in Proc : \A i \in 1..Len(trail[p]) :
    LET name == NameOf(file[p])
        rule == ConfigRules[trail[p][i].rule]
    IN  (\/ ExtensionFails(name, rule)
         \/ NameFails(name, rule)
         \/ ContentOnNonPdf(name, rule))
          => /\ ~trail[p][i].matched
             /\ trail[p][i].calls = 0

\* C5 witness: the calls made so far met each of the three cases on a rule
\* with content keywords: the extension check failed; it passed and the name
\* check failed; both passed and the file was not a .pdf
C5_Witness ==
  /\ \E p \in Proc : \E i \in 1..Len(trail[p]) :
       LET rule == ConfigRules[trail[p][i].rule]
       IN  /\ Truthy(rule.content_contains)
           /\ ExtensionFails(NameOf(file[p]), rule)
           /\ trail[p][i].calls = 0
  /\ \E p \in Proc : \E i \in 1..Len(trail[p]) :
       LET rule == ConfigRules[trail[p][i].rule]
       IN  /\ Truthy(rule.content_contains)
           /\ ~ExtensionFails(NameOf(file[p]), rule)
           /\ NameFails(NameOf(file[p]), rule)
           /\ trail[p][i].calls = 0
  /\ \E p \in Proc : \E i \in 1..Len(trail[p]) :
       LET rule == ConfigRules[trail[p][i].rule]
       IN  /\ ~ExtensionFails(NameOf(file[p]), rule)
           /\ ~NameFails(NameOf(file[p]), rule)
           /\ ContentOnNonPdf(NameOf(file[p]), rule)
           /\ trail[p][i].calls = 0
  /\ \E p \in Proc : \E i \in 1..Len(trail[p]) : trail[p][i].calls = 1


\* the call has not fingerprinted its file yet
BeforeDigest(p) == pc[p] \in {"prepare", "sleep1", "sleep2lock", "sleep2chg",
                              "hash"}

\* no path holds in the next state a file it does not hold now
NothingCreated == \A path \in Paths : fs'[path] \in {fs[path], NoFile}

\* C6: the step that fingerprints an empty file is a plain return of
\* sort_file
C6_EmptyEndsAtDigest ==
  \A p \in Proc :
    (/\ pc[p] = "hash" /\ pc'[p] # "hash"
     /\ fs[SrcPath(file[p])] = file[p]
     /\ size[file[p]] = 0)
      => /\ pc'[p] = "done" /\ outcome'[p] = "Unhashable"
         /\ file_hash'[p] = Nil
         /\ ledger' = ledger /\ fs' = fs /\ stats' = stats

\* C6: a call that ended at the fingerprint made no record, attempted no
\* placement, matched no rule, and the errors counter is where it was
C6_NothingDone ==
  \A p \in Proc :
    (pc[p] = "done" /\ outcome[p] = "Unhashable")
      => /\ file_hash[p] = Nil /\ placed[p] = None /\ dest_path[p] = Nil
         /\ trail[p] = <<>>
         /\ stats.errors = 0
         /\ \A i \in 1..Len(ledger) :
              ledger[i].file_size # 0

C7_SmallestFreeCounter ==
  probe # Nil =>
    LET path == probe[1]
        res  == probe[2]
        free == {k \in 1..(MaxAttempts - 1) :
                   fs[<<path[1], path[2], k>>] = NoFile}
    IN  /\ fs[path] = NoFile => res = path
        /\ (fs[path] # NoFile /\ free # {}) =>
             /\ res # Raise
             /\ res[1] = path[1] /\ res[2] = path[2]
             /\ res[3] \in free
             /\ \A k \in free : res[3] <= k
             /\ PathName(res) = Stem(path[2])
                                  \o <<"_", Digits[res[3]]>>
                                  \o Suffix(path[2])
        /\ (fs[path] # NoFile /\ free = {}) => res = Raise
        /\ res # Raise => fs[res] = NoFile

\* C7 witness: the directory holds Inv.PDF and Inv_1.PDF and the call
\* returned Inv_2.PDF
C7_Witness ==
  /\ probe # Nil
  /\ probe[1][2] = NameOf("f1")
  /\ fs[probe[1]] # NoFile
  /\ fs[<<probe[1][1], probe[1][2], 1>>] # NoFile
  /\ probe[2] # Raise
  /\ PathName(probe[2]) = <<"I", "n", "v", "_", "2", ".", "P", "D", "F">>


\* C8: handle_duplicate reaches get_unique_path (it has counted the
\* duplicate) while every candidate name is taken in the duplicate folder
C8_DuplicateFolderFull(p) ==
  /\ pc[p] = "dup"
  /\ stats'.duplicates_found # stats.duplicates_found
  /\ Exhausted(fs, DuplicateFolder, NameOf(file[p]))

\* C8: a rule has just matched while every candidate name is taken in its
\* destination
C8_RuleDestinationFull(p) ==
  /\ pc[p] = "rules"
  /\ Len(trail'[p]) = Len(trail[p]) + 1
  /\ Last(trail'[p]).matched
  /\ Exhausted(fs, ConfigRules[rule_i[p]].dest, NameOf(file[p]))

\* C8: what a placement step does when the destination is full
C8_PlacementStep ==
  \A p \in Proc :
    (C8_DuplicateFolderFull(p) \/ C8_RuleDestinationFull(p))
      => /\ placed'[p] = "failed"
         /\ pc'[p] \notin {"dupmove", "rulemove", "rulerec"}
         /\ dest_path'[p] = dest_path[p]
         /\ fs' = fs

\* C8: when every candidate name get_unique_path tries is taken in the
\* destination directory, the placement (into the duplicate folder or into a
\* rule's destination) fails: no move is attempted, the file system is left
\* as it is, so the source file stays where it is and the destination
\* directory gets nothing.
C8_ExhaustedPlacementFails == [][C8_PlacementStep]_vars

\* C8 witness: a call whose rule matched found the rule's destination full;
\* it has returned, the file is at its source path
C8_Witness ==
  \E p \in Proc :
    /\ pc[p] = "done" /\ ~faulted[p]
    /\ placed[p] = "failed"
    /\ trail[p] # <<>> /\ Last(trail[p]).matched
    /\ Exhausted(fs, ConfigRules[Last(trail[p]).rule].dest, NameOf(file[p]))
    /\ fs[SrcPath(file[p])] = file[p]
    /\ dest_path[p] = Nil

\* the call evaluated every rule and none matched
NoRuleMatched(p) ==
  /\ pc[p] = "done" /\ outcome[p] = "Retained"
  /\ Len(trail[p]) = Len(ConfigRules)
  /\ \A i \in 1..Len(trail[p]) : ~trail[p][i].matched

\* C9: a file that matches no rule stays at its source path and the ledger
\* holds a record of its digest with that path (no second event was
\* delivered for the same file)
C9_RetainedAndRecorded ==
  \A p \in Proc :
    (/\ NoRuleMatched(p) /\ ~faulted[p] /\ Present(file[p])
     /\ \A q \in Proc \ {p} : file[q] # file[p])
      => /\ fs[SrcPath(file[p])] = file[p]
         /\ \E i \in 1..Len(ledger) :
              /\ ledger[i].sha256_hash = file_hash[p]
              /\ ledger[i].original_path = SrcPath(file[p])

\* C9: a file with the same bytes processed after it ends in the duplicate
\* folder
C9_LaterCopyDiverted ==
  \A p \in Proc, q \in Proc :
    (/\ NoRuleMatched(p) /\ ~faulted[p] /\ Present(file[p])
     /\ SameContent(p, q) /\ ord[p] < ord[q]
     /\ pc[q] = "done" /\ ~faulted[q] /\ Present(file[q]))
      => /\ outcome[q] = "Diverted"
         /\ InDir(file[q], {DuplicateFolder})

\* C9: a file that matches no rule stays at its original path, the ledger
\* holds a record of its digest with that path, and a byte-identical file
\* processed afterwards is diverted into the duplicate folder.  Stated for
\* calls into which no ledger or OS fault was injected and for files nobody
\* deleted.
C9_UnmatchedIsRemembered == C9_RetainedAndRecorded /\ C9_LaterCopyDiverted


\* C10: a call whose file was deleted while the gate slept is still asleep
\* or has returned from the gate (the file vanished); it never fingerprinted
\* the file, evaluated a rule or attempted a placement
C10_AbortsAtGate ==
  \A p \in Proc :
    quiet_del[p] =>
      /\ Sleeping(p) \/ (pc[p] = "done" /\ outcome[p] = "Vanished")
      /\ file_hash[p] = Nil
      /\ trail[p] = <<>>
      /\ placed[p] = None /\ dest_path[p] = Nil

\* C10: while a call is in the gate, no step changes the ledger or the
\* counters, and no step puts a file anywhere
C10_NothingWritten ==
  (\E p \in Proc : pc[p] \in {"prepare", "sleep1", "sleep2lock", "sleep2chg"})
    => (ledger' = ledger /\ NothingCreated /\ stats' = stats)

\* C10: if a file is deleted during the quiet period of the stability gate,
\* its pipeline aborts at the gate: the ledger is left unchanged and no file
\* is created in a rule destination or in the duplicate folder.
C10_DeletedWhileWaiting ==
  []C10_AbortsAtGate /\ [][C10_NothingWritten]_vars

\* C10 witness: a file was deleted while its call slept and the call has
\* returned; the file is nowhere and the ledger is empty
C10_Witness ==
  \E p \in Proc :
    /\ quiet_del[p]
    /\ pc[p] = "done" /\ outcome[p] = "Vanished"
    /\ ~Present(file[p])
    /\ ledger = <<>>


\* C11: a step of a call that has matched a rule adds a record only from the
\* point after the move, when the file is at the destination path
\* get_unique_path returned and no longer at its source path; the record
\* carries that destination path
C11_RecordStep ==
  \A p \in Proc :
    (/\ pc[p] \in {"rules", "rulemove", "rulerec"}
     /\ pc'[p] # pc[p]
     /\ ledger' # ledger)
      => /\ pc[p] = "rulerec"
         /\ placed[p] = "moved"
         /\ fs[dest_path[p]] = file[p]
         /\ fs[SrcPath(file[p])] # file[p]
         /\ dest_path[p][1] = ConfigRules[Last(trail[p]).rule].dest
         /\ ledger' = Append(ledger, Last(ledger'))
         /\ Last(ledger').sha256_hash = file_hash[p]
         /\ Last(ledger').original_path = dest_path[p]
         /\ Last(ledger').original_path # SrcPath(file[p])

\* C11: a call that returned after sorting its file by a rule moved the file
\* first, and the record of its digest, if this call made it, names the
\* file's destination
C11_SortedIsMoved ==
  \A p \in Proc :
    (pc[p] = "done" /\ outcome[p] = "Sorted")
      => /\ placed[p] = "moved"
         /\ \A i \in 1..Len(ledger) :
              ledger[i].file_name = PathName(dest_path[p])
                /\ ledger[i].sha256_hash = file_hash[p]
                /\ ledger[i].original_path[1] \in RuleDests
                => ledger[i].original_path = dest_path[p]

\* C11: for a file sorted by a rule, the ledger insert happens only after the
\* move into the rule's destination has succeeded, and the inserted record's
\* path is the final, collision-free destination path, not the source path.
C11_RecordAfterMove == []C11_SortedIsMoved /\ [][C11_RecordStep]_vars

\* C11 witness: a file was sorted into a destination that held its name
\* already; it is at the path with counter 1 and the record names that path
C11_Witness ==
  \E p \in Proc :
    /\ pc[p] = "done" /\ outcome[p] = "Sorted"
    /\ dest_path[p] # Nil
    /\ dest_path[p][3] = 1
    /\ fs[dest_path[p]] = file[p]
    /\ fs[<<dest_path[p][1], dest_path[p][2], 0>>] = Foreign
    /\ Len(ledger) = 1
    /\ ledger[1].original_path = dest_path[p]
    /\ ledger[1].sha256_hash = file_hash[p]


\* the extract_text calls a sort_file call has made
RECURSIVE SumCalls(_)
SumCalls(tr) == IF tr = <<>> THEN 0 ELSE Head(tr).calls + SumCalls(Tail(tr))

\* C12: within one sort_file call the text extractor is invoked at most
\* once, however many rules with content keywords are evaluated.
C12_OneExtractionPerFile == \A p \in Proc : SumCalls(trail[p]) <= 1


\* how far a sort_file call has come
Rank(at, i) ==
  LET base == CASE at = "idle" -> 0
                [] at = "prepare" -> 1
                [] at = "sleep1" -> 2
                [] at \in {"sleep2lock", "sleep2chg"} -> 3
                [] at = "hash" -> 4
                [] at = "dupcheck" -> 5
                [] at = "dup" -> 6
                [] at = "dupmove" -> 7
                [] at = "rules" -> 8
                [] at = "rulemove" -> 9
                [] at = "rulerec" -> 10
                [] at = "unmatched" -> 11
                [] OTHER -> 12
  IN  base * (Len(ConfigRules) + 1) + i

\* the points of sort_file at which a call can stand: before its first
\* statement, at one of the statements of SortFileStep, or after a return
SortFileLabels ==
  {"idle", "prepare", "sleep1", "sleep2lock", "sleep2chg", "hash",
   "dupcheck", "dup", "dupmove", "rules", "rulemove", "rulerec",
   "unmatched", "done"}

\* C13: a call in flight stands at a statement of sort_file (no exception
\* has taken it elsewhere), a call that ended ended with one of the return
\* statements of sort_file, the errors counter was never touched, and after
\* a return the next event can be handled
C13_NeverStuck ==
  /\ \A p \in Proc :
       /\ pc[p] \in SortFileLabels
       /\ pc[p] = "done" =>
            outcome[p] \in {"Vanished", "Unhashable", "Diverted", "Sorted",
                            "Retained"}
  /\ stats.errors = 0
  /\ \A f \in Files :
       (/\ pc["p1"] = "done" /\ pc["p2"] = "idle"
        /\ ~ShouldIgnoreFile(Exists(SrcPath(f)), NameOf(f)))
         => ENABLED OnCreated("p2", f)

\* C13: every statement of a call brings it nearer to its return
C13_Advances ==
  \A p \in Proc :
    (pc'[p] # pc[p] \/ rule_i'[p] # rule_i[p])
      => Rank(pc'[p], rule_i'[p]) > Rank(pc[p], rule_i[p])

\* C13: no per-file condition (vanished file, lock contention, unhashable
\* file, extraction failure, move failure, naming exhaustion, ledger error)
\* leaves sort_file as an exception: every call goes on, statement by
\* statement, to one of its return statements, and the next event can then
\* be handled.
C13_SortFileReturns == []C13_NeverStuck /\ [][C13_Advances]_vars

\* C13 witness: a call that met a ledger or OS fault and a failed placement
\* has returned, and the call for the next event has returned too
C13_Witness ==
  \E p \in Proc, q \in Proc :
    /\ pc[p] = "done" /\ faulted[p] /\ placed[p] = "failed"
    /\ ord[q] > ord[p]
    /\ pc[q] = "done" /\ outcome[q] \in {"Sorted", "Diverted"}


\* C14: no step lowers a counter of FileSorter.stats
C14_CountersStep ==
  /\ stats'.files_processed >= stats.files_processed
  /\ stats'.files_sorted >= stats.files_sorted
  /\ stats'.duplicates_found >= stats.duplicates_found
  /\ stats'.errors >= stats.errors

\* C14: each counter of the run statistics (files_processed, files_sorted,
\* duplicates_found, errors) never decreases, across any sequence of
\* sort_file calls.
C14_CountersNeverDecrease == [][C14_CountersStep]_vars

\* C14 witness: two calls have returned, one sorted its file and the other
\* diverted a duplicate; the counters say so
C14_Witness ==
  /\ \A p \in Proc : pc[p] = "done"
  /\ stats.files_processed = 2
  /\ stats.files_sorted = 1
  /\ stats.duplicates_found = 1


\* the ignore policy: the name starts with ".", "~", "thumbs.db" or
\* "desktop.ini", or its suffix is .tmp, .crdownload, .part, .download, .swp
\* or .bak (letters compared without regard to case)
MatchesIgnorePolicy(name) ==
  \/ \E prefix \in { <<".">>,
                     <<"~">>,
                     <<"t", "h", "u", "m", "b", "s", ".", "d", "b">>,
                     <<"d", "e", "s", "k", "t", "o", "p", ".", "i", "n", "i">> } :
       StartsWith(Lower(name), prefix)
  \/ Lower(Suffix(name)) \in { <<".", "t", "m", "p">>,
                               <<".", "c", "r", "d", "o", "w", "n", "l", "o", "a", "d">>,
                               <<".", "p", "a", "r", "t">>,
                               <<".", "d", "o", "w", "n", "l", "o", "a", "d">>,
                               <<".", "s", "w", "p">>,
                               <<".", "b", "a", "k">> }

\* C15: the handler has not passed a file of an ignored name to sort_file
C15_NotEntered ==
  (probe # Nil /\ MatchesIgnorePolicy(probe[1][3])) => probe[2] # "sort_file"

\* C15: the handling of an event for a file of an ignored name changes no
\* counter, no record, no file and starts no call
C15_NothingTouched ==
  (probe' # probe /\ MatchesIgnorePolicy(probe'[1][3]))
    => /\ stats' = stats /\ ledger' = ledger /\ fs' = fs
       /\ pc' = pc /\ file_hash' = file_hash /\ sample' = sample

\* C15: a file whose name matches the ignore policy never enters the
\* pipeline from a created or a moved event: sort_file is not called for it,
\* so it is not stabilized, hashed, looked up, moved or recorded, and no
\* counter changes.
C15_IgnoredNeverEnters == []C15_NotEntered /\ [][C15_NothingTouched]_vars

\* C15 witness: after an event that entered sort_file, a moved event for
\* Thumbs.DB in the source folder was ignored; the counter is where it was
C15_Witness ==
  /\ probe # Nil
  /\ probe[1] = <<"moved", SourceFolder,
                  <<"T", "h", "u", "m", "b", "s", ".", "D", "B">>, FALSE>>
  /\ probe[2] = "ignored"
  /\ stats.files_processed = 1


\* the gate has reported the call's file stable and the call goes on with it
PastGate(p) ==
  pc[p] \in {"hash", "dupcheck", "dup", "dupmove", "rules", "rulemove",
             "rulerec", "unmatched"}

\* C16: no step writes to a file that a call is fingerprinting, looking up,
\* matching or relocating
C16_NoWriteStep ==
  \A p \in Proc :
    PastGate(p) => /\ size'[file[p]] = size[file[p]]
                   /\ mtime'[file[p]] = mtime[file[p]]

\* C16: whenever the stability gate has reported a file stable, its writer
\* has finished: the file is not written to while it is fingerprinted, looked
\* up in the ledger, matched or relocated.
C16_StableMeansWritten == [][C16_NoWriteStep]_vars


\* C17: for every digest some call has answered True or False for, the
\* table holds exactly one record; two calls with one digest have not both
\* answered True
C17_OneRecordOneTrue ==
  /\ \A p \in Proc :
       outcome[p] \in {"True", "False"}
         => Cardinality(RowsOf(file_hash[p])) = 1
  /\ \A p \in Proc, q \in Proc :
       (p # q /\ file_hash[p] = file_hash[q])
         => ~(outcome[p] = "True" /\ outcome[q] = "True")
  /\ C3_OneRecordPerDigest

\* C17: an INSERT of a digest the table holds answers False and leaves the
\* table as it is
C17_PresentAnswersFalse ==
  \A p \in Proc :
    (/\ pc[p] = "insert" /\ pc'[p] # "insert"
     /\ RowsOf(file_hash[p]) # {}
     /\ \A q \in Proc \ {p} : ~HoldsWriteLock(q))
      => /\ outcome'[p] = "False"
         /\ ledger' = ledger

\* C17: two concurrent add_file_record calls with the same digest leave
\* exactly one stored record for it and at most one of them returns True; a
\* call for a digest already present returns False without raising.
C17_InsertIfAbsentIsAtomic ==
  []C17_OneRecordOneTrue /\ [][C17_PresentAnswersFalse]_vars

\* C17 witness: on an empty table two calls with one digest overlapped (one
\* waited for the other's write lock); one answered True, the other False,
\* and the table holds one record
C17_Witness ==
  \E p \in Proc, q \in Proc :
    /\ file_hash[p] = file_hash[q]
    /\ outcome[p] = "True" /\ outcome[q] = "False"
    /\ placed[q] = "waited"
    /\ Len(ledger) = 1
    /\ ledger[1].original_path = dest_path[p]


\* the call is in a stability-gate sleep or evaluating rules (where match_rule
\* extracts text)
Blocked(p) == Sleeping(p) \/ pc[p] = "rules"

\* C18: while the pipeline of one file is blocked in a stability-gate sleep
\* or in text extraction, the event for another file that is waiting in the
\* source folder can be handled: its sort_file call can start.
C18_OthersNotDelayed ==
  \A p \in Proc, q \in Proc, f \in Files :
    (/\ p # q
     /\ Blocked(p) /\ pc[q] = "idle"
     /\ file[p] # f
     /\ ~ShouldIgnoreFile(Exists(SrcPath(f)), NameOf(f)))
      => ENABLED OnCreated(q, f)


\* the ledger holds a record of the digest the call computed for its file
Recorded(p) == RowsOf(file_hash[p]) # {}

\* C19: when the process has exited after a shutdown request, no pipeline is
\* left in flight (each one started has reached its terminal state), and no
\* file is in a rule destination without a ledger record of its digest.
\* Stated for calls into which no ledger or OS fault was injected.
C19_CleanStop ==
  probe = Exited =>
    /\ \A p \in Proc : ~InFlight(p)
    /\ \A p \in Proc :
         (/\ ~faulted[p] /\ placed[p] = "moved"
          /\ dest_path[p][1] \in RuleDests
          /\ fs[dest_path[p]] = file[p])
           => Recorded(p)


\* some rule that asks for nothing but an extension accepts the name
ExtensionRuleMatches(name) ==
  \E i \in 1..Len(ConfigRules) :
    /\ Truthy(ConfigRules[i].extensions)
    /\ ~Truthy(ConfigRules[i].name_contains)
    /\ ~Truthy(ConfigRules[i].content_contains)
    /\ ~ExtensionFails(name, ConfigRules[i])

\* C20: a file that is not ignored and not a duplicate and whose extension
\* matches an extension rule is, when its sort_file call has returned, in a
\* rule's destination, whatever its size (zero bytes included).  Stated for
\* the first call made, on a file that stays in place, that no fault is
\* injected for and that the gate reports stable, with empty destination
\* folders.
C20_ExtensionRuleSortsAnySize ==
  \A p \in Proc :
    (/\ pc[p] = "done"
     /\ \A q \in Proc \ {p} : pc[q] = "idle"
     /\ ExtensionRuleMatches(NameOf(file[p]))
     /\ ~faulted[p] /\ Present(file[p]) /\ NoForeign
     /\ outcome[p] # "Vanished")
      => /\ outcome[p] = "Sorted"
         /\ InDir(file[p], RuleDests)


\* the call's last placement (into the duplicate folder or into a rule's
\* destination) failed: the names were exhausted or safe_move returned False
PlacementFailed(p) == placed[p] = "failed"

\* the failed placement was the one of a matched rule
RulePlacementFailed(p) ==
  /\ PlacementFailed(p)
  /\ trail[p] # <<>> /\ Last(trail[p]).matched

\* C21: when relocating a file fails (move failure or naming exhaustion), in
\* the duplicate path or in the rule path, the call is accounted as an error:
\* once it has returned, the errors counter has been incremented.
C21_FailedPlacementIsCounted ==
  \A p \in Proc :
    (pc[p] = "done" /\ PlacementFailed(p)) => stats.errors >= 1

\* C22: when relocation to the matched rule's destination fails (move failure
\* or naming exhaustion), the call aborts: it does not go on to
\* _handle_unmatched_file, so it does not end as Retained and makes no ledger
\* record for its digest.
C22_FailedRulePlacementAborts ==
  \A p \in Proc :
    RulePlacementFailed(p)
      => /\ pc[p] # "unmatched"
         /\ outcome[p] # "Retained"
         /\ \A i \in RowsOf(file_hash[p]) :
              ledger[i].original_path # SrcPath(file[p])


\* the statements of wait_for_file_stability at which a call can stand
GateLabels == {"prepare", "sleep1", "sleep2lock", "sleep2chg"}

\* the quiet-period sleeps the gate has begun when the call stands at a label
SleepsBegun(label) ==
  IF label = "prepare" THEN 0
  ELSE IF label = "sleep1" THEN 1
  ELSE IF label \in {"sleep2lock", "sleep2chg"} THEN 2
  ELSE 3

\* the next statement of the gate
GateStep(p) == Prepare(p) \/ Wake1(p) \/ Wake2Lock(p) \/ Wake2Chg(p)

\* C23: a call in the gate can always take its next statement, whatever was
\* done to the file
C23_GateNeverBlocks ==
  \A p \in Proc : pc[p] \in GateLabels => ENABLED GateStep(p)

\* C23: every statement of the gate either begins the next sleep or returns,
\* and after the second sleep it returns
C23_GateAdvances ==
  \A p \in Proc :
    (pc[p] \in GateLabels /\ pc'[p] # pc[p])
      => /\ pc'[p] \in GateLabels
           => SleepsBegun(pc'[p]) = SleepsBegun(pc[p]) + 1
         /\ SleepsBegun(pc[p]) = 2 => pc'[p] \in {"hash", "done"}
         /\ pc'[p] \notin GateLabels => pc'[p] \in {"hash", "done"}

\* C23: the stability gate always terminates: on every path (unchanged and
\* readable, unchanged and locked, changed, vanished, OS error) it returns
\* after at most two quiet-period sleeps, whatever a concurrent writer does
\* to the file.
C23_GateTerminates == []C23_GateNeverBlocks /\ [][C23_GateAdvances]_vars

\* C23 witness: the gate slept twice (the read probe met a lock) while the
\* writer went on writing, and it has returned: the file is still there
C23_Witness ==
  \E p \in Proc :
    /\ pc[p] = "done" /\ outcome[p] = "Vanished"
    /\ ~faulted[p] /\ ~quiet_del[p]
    /\ fs[SrcPath(file[p])] = file[p]
    /\ size[file[p]] = MaxSize


\* C24: the return of the gate from its second sleep in the lock contention
\* branch reports Stable (the call goes on to fingerprint the file) exactly
\* when the file is still there
C24_LockedReturn ==
  \A p \in Proc :
    (pc[p] = "sleep2lock" /\ pc'[p] # pc[p])
      => (pc'[p] = "hash" <=> Exists(SrcPath(file[p])))

\* C24: in the stability gate, when size and modification time are unchanged
\* across the first quiet period but the read probe fails with lock
\* contention, the gate sleeps one more quiet period and then reports Stable
\* if and only if the file is still present (whether or not its size changed
\* in the meantime).
C24_LockedAcceptsIfPresent == [][C24_LockedReturn]_vars


\* what stat reports for the call's file now: <<st_size, st_mtime>>
CurrentSample(p) == <<size[file[p]], mtime[file[p]]>>

\* C25 as stated: the return of the gate from its second sleep in the changed
\* branch reports Stable
C25_ChangedReturnsStable ==
  \A p \in Proc :
    (pc[p] = "sleep2chg" /\ pc'[p] # pc[p]) => pc'[p] = "hash"

\* C25 as stated: in the stability gate, when size or modification time
\* changed between the two samples, the gate waits exactly one more quiet
\* period and then accepts the file unconditionally, without sampling size or
\* modification time again.
C25_ChangedAcceptsUnconditionally == [][C25_ChangedReturnsStable]_vars

\* C25: the gate begins the second sleep of the changed branch only when the
\* second sample differs from the first
C25_EntersOnChange ==
  \A p \in Proc :
    (pc[p] = "sleep1" /\ pc'[p] = "sleep2chg")
      => /\ sample[p] # CurrentSample(p)
         /\ cur_size'[p] = size[file[p]]

\* C25: after that sleep the gate returns, Stable exactly when the file is
\* still there, and the samples it holds are the ones it had
C25_ReturnsOnPresence ==
  \A p \in Proc :
    (pc[p] = "sleep2chg" /\ pc'[p] # pc[p])
      => /\ pc'[p] \in {"hash", "done"}
         /\ pc'[p] = "hash" <=> Exists(SrcPath(file[p]))
         /\ pc'[p] = "hash" => (cur_size'[p] = cur_size[p] /\ sample'[p] = Nil)
         /\ pc'[p] = "done" => outcome'[p] = "Vanished"

\* C25 amended: in the stability gate, when size or modification time changed
\* between the two samples, the gate waits exactly one more quiet period and
\* then accepts the file if it is still present (it reports it vanished
\* otherwise), without sampling size or modification time again.
C25_ChangedAcceptsIfPresent ==
  [][C25_EntersOnChange /\ C25_ReturnsOnPresence]_vars

\* C25 witness: the gate took the changed branch, the writer wrote again
\* during the second sleep, and the gate has reported the file stable
C25_Witness ==
  \E p \in Proc :
    /\ pc[p] = "hash"
    /\ cur_size[p] # NoSize
    /\ fs[SrcPath(file[p])] = file[p]
    /\ size[file[p]] # cur_size[p]


\* the handler passed the path of the last event to sort_file
Entered == probe # Nil /\ probe[2] = "sort_file"

\* C26: directory events and events whose path lies outside the watched
\* source folder never start a pipeline: on_created and on_moved call
\* sort_file only for a non-directory path whose parent is the source folder.
C26_OnlyFilesOfTheSourceFolder ==
  Entered => (~probe[1][4] /\ probe[1][2] = SourceFolder)

\* C26, directory events alone: none enters sort_file
C26_NoDirectoryEnters == Entered => ~probe[1][4]

\* C26, moved events alone: none with a destination elsewhere enters
C26_NoMoveElsewhereEnters ==
  (Entered /\ probe[1][1] = "moved") => probe[1][2] = SourceFolder


\* C27: a fingerprint step that yields no digest ends the call, and it
\* changes no counter, no record and no file; a missing or empty file yields
\* no digest
C27_NoDigestStep ==
  \A p \in Proc :
    /\ (pc[p] = "hash" /\ pc'[p] # pc[p] /\ file_hash'[p] = Nil)
         => /\ pc'[p] = "done" /\ outcome'[p] = "Unhashable"
            /\ stats' = stats /\ ledger' = ledger /\ fs' = fs
    /\ (/\ pc[p] = "hash" /\ pc'[p] # pc[p]
        /\ (~Exists(SrcPath(file[p])) \/ StSize(SrcPath(file[p])) = 0))
         => file_hash'[p] = Nil

\* C27: a call that ended for want of a digest made no duplicate lookup, no
\* rule evaluation and no placement
C27_NothingAfterwards ==
  \A p \in Proc :
    (pc[p] = "done" /\ outcome[p] = "Unhashable")
      => /\ file_hash[p] = Nil
         /\ trail[p] = <<>>
         /\ dest_path[p] = Nil
         /\ placed[p] = None

ItemsOf(list) == {list.items[i] : i \in 1..Len(list.items)}

\* the criteria groups of a rule, each passing for a file of that name and
\* that extracted text
ExtensionGroupPasses(name, rule) ==
  Lower(Suffix(name)) \in ItemsOf(rule.extensions)

NameGroupPasses(name, rule) ==
  \E kw \in ItemsOf(rule.name_contains) : Contains(Lower(name), kw)

ContentGroupPasses(name, rule, text) ==
  /\ Lower(Suffix(name)) = <<".", "p", "d", "f">>
  /\ text # <<>>
  /\ \E kw \in ItemsOf(rule.content_contains) : Contains(Lower(text), kw)

\* C28: match_rule reports Matched for an existing file exactly when every
\* criteria group present on the rule passes: the lowercased suffix is in
\* extensions (if set), some name keyword is a substring of the lowercased
\* filename (if set), and (if content keywords are set) the file is a .pdf,
\* extraction returned non-empty text and some content keyword occurs in the
\* lowercased text; a rule with zero criteria groups matches every existing
\* file.  A missing file matches no rule.
C28_MatchedIffAllGroupsPass ==
  probe # Nil =>
    LET present == probe[1]
        name    == probe[2]
        rule    == probe[3]
        text    == probe[4]
        matched == probe[5]
    IN  /\ matched <=>
             /\ present
             /\ rule.extensions.items # <<>>
                  => ExtensionGroupPasses(name, rule)
             /\ rule.name_contains.items # <<>>
                  => NameGroupPasses(name, rule)
             /\ rule.content_contains.items # <<>>
                  => ContentGroupPasses(name, rule, text)
        /\ (/\ present
            /\ rule.extensions.items = <<>>
            /\ rule.name_contains.items = <<>>
            /\ rule.content_contains.items = <<>>) => matched

\* C28 witness: a rule with all three groups matched Inv.PDF on its suffix,
\* its name and its text
C28_Witness ==
  /\ probe # Nil
  /\ probe[2] = <<"I", "n", "v", ".", "P", "D", "F">>
  /\ probe[3].priority = 3
  /\ probe[4] # <<>>
  /\ probe[5]


\* the step evaluated a content rule whose keywords occur in the file's text
\* and yet rejected it after calling extract_text: the extraction failed or
\* yielded no text
ExtractionFailed(p) ==
  /\ pc[p] = "rules"
  /\ Len(trail'[p]) = Len(trail[p]) + 1
  /\ Last(trail'[p]).calls = 1
  /\ ~Last(trail'[p]).matched
  /\ ContainsKeywords(TextOf(file[p]), ConfigRules[rule_i[p]].content_contains)

\* C29: what the rule loop does on a failed extraction
C29_RejectStep ==
  \A p \in Proc :
    ExtractionFailed(p)
      => /\ stats' = stats
         /\ fs' = fs /\ ledger' = ledger
         /\ faulted'[p] = faulted[p]
         /\ IF rule_i[p] < Len(ConfigRules)
            THEN pc'[p] = "rules" /\ rule_i'[p] = rule_i[p] + 1
            ELSE pc'[p] = "unmatched"

\* C29: when text extraction fails or yields no text for a rule with content
\* keywords, that rule is rejected, evaluation continues with the next rule
\* in order, and the errors counter is not incremented; the file can still
\* be sorted by a later rule or end as Retained.
C29_ExtractionFailureRejectsRule == [][C29_RejectStep]_vars

\* C29 witness: extraction failed for rule Totals, whose keyword is in the
\* text of Inv.PDF; a later rule matched and the file is sorted, no error
\* counted
C29_Witness ==
  \E p \in Proc :
    /\ pc[p] = "done" /\ outcome[p] = "Sorted" /\ ~faulted[p]
    /\ stats.errors = 0
    /\ \E i \in 1..Len(trail[p]) :
         /\ ConfigRules[trail[p][i].rule].name = "Totals"
         /\ trail[p][i].calls = 1
         /\ ~trail[p][i].matched
         /\ i < Len(trail[p])
    /\ Last(trail[p]).matched


\* the duplicate lookup of the call raises DatabaseError in this step
LookupFails(p) == pc[p] = "dupcheck" /\ ~faulted[p] /\ faulted'[p]

\* C30: the step in which the lookup fails does not go on to the rules as if
\* the digest were new
C30_LookupFailureStep ==
  \A p \in Proc : LookupFails(p) => pc'[p] \notin {"rules", "unmatched"}

\* C30: a ledger error raised by the duplicate lookup is surfaced as a
\* failure of that operation and is not swallowed: the pipeline does not
\* treat the failed lookup as 'digest is new' and go on to match rules,
\* relocate the file and insert a record.
C30_LookupFailureIsSurfaced == [][C30_LookupFailureStep]_vars


\* a criteria group that rules.yml gives, but as an empty list or with a
\* blank string in it
BadGroup(list) ==
  /\ list.given
  /\ \/ list.items = <<>>
     \/ \E i \in 1..Len(list.items) : Strip(list.items[i]) = <<>>

BadEntry(r) ==
  BadGroup(r.extensions) \/ BadGroup(r.name_contains)
    \/ BadGroup(r.content_contains)

\* load_config raised ConfigurationError
LoadFailed == probe # Nil /\ probe[2].raised

\* C31: rule validation fails at load time with a ConfigurationError whenever
\* a rule's extensions, name_contains or content_contains is present but is
\* an empty list or contains a blank string; no loaded rule ever has a
\* criteria group that was configured but ends up empty and is therefore
\* treated as absent at match time.
C31_BadCriteriaRejectedAtLoad ==
  probe # Nil =>
    /\ (\E i \in 1..Len(probe[1]) : BadEntry(probe[1][i])) => LoadFailed
    /\ ~LoadFailed =>
         \A i \in 1..Len(probe[1]), j \in 1..Len(probe[2].rules) :
           probe[1][i].name = probe[2].rules[j].name
             => /\ probe[1][i].extensions.given
                     => Truthy(probe[2].rules[j].extensions)
                /\ probe[1][i].name_contains.given
                     => Truthy(probe[2].rules[j].name_contains)
                /\ probe[1][i].content_contains.given
                     => Truthy(probe[2].rules[j].content_contains)


\* the number of criteria groups of a loaded rule that are not empty
GroupCount(rule) ==
  Cardinality({g \in {"e", "n", "c"} :
                 \/ g = "e" /\ rule.extensions.items # <<>>
                 \/ g = "n" /\ rule.name_contains.items # <<>>
                 \/ g = "c" /\ rule.content_contains.items # <<>>})

\* the place of the rule of that name in rules.yml
ConfigPlace(raw, name) == CHOOSE i \in 1..Len(raw) : raw[i].name = name

\* C32: after configuration is built, the rule list is ordered by descending
\* priority (priority = number of non-empty criteria groups, 0 to 3), rules
\* of equal priority keep their configuration order, and rules with zero
\* criteria groups come after every rule with at least one group.  Nothing
\* but the sort of Config.__post_init__ writes the list: the pipeline
\* evaluates ConfigRules as loaded.
C32_RulesOrderedByPriority ==
  (probe # Nil /\ ~probe[2].raised) =>
    LET raw   == probe[1]
        rules == probe[2].rules
    IN  /\ Len(rules) = Len(raw)
        /\ \A i \in 1..Len(raw) : \E j \in 1..Len(rules) :
             rules[j].name = raw[i].name
        /\ \A j \in 1..Len(rules) :
             /\ rules[j].priority = GroupCount(rules[j])
             /\ rules[j].priority \in 0..3
        /\ \A i \in 1..Len(rules), j \in 1..Len(rules) :
             i < j =>
               /\ rules[i].priority >= rules[j].priority
               /\ rules[i].priority = rules[j].priority
                    => ConfigPlace(raw, rules[i].name)
                         < ConfigPlace(raw, rules[j].name)
               /\ GroupCount(rules[i]) = 0 => GroupCount(rules[j]) = 0

\* C32 witness: rules.yml lists a rule without criteria first and two rules
\* of one group each after it; loaded, the two come first, in their
\* configuration order, and the rule without criteria is last
C32_Witness ==
  /\ probe # Nil
  /\ Len(probe[1]) = 3
  /\ probe[2].rules[1].name = "r2" /\ probe[2].rules[1].priority = 1
  /\ probe[2].rules[2].name = "r3" /\ probe[2].rules[2].priority = 1
  /\ probe[2].rules[3].name = "r1" /\ probe[2].rules[3].priority = 0


\* the folders files are relocated into
DestDirs == RuleDests \cup {DuplicateFolder}

\* a call renames its file in this step
Moves(p) ==
  pc[p] \in {"dupmove", "rulemove"} /\ pc'[p] # pc[p] /\ fs' # fs

\* C34: a rename targets a path at which no file exists, and what is in a
\* rule destination or in the duplicate folder stays there as it is
C34_MoveStep ==
  /\ \A p \in Proc : Moves(p) => fs[dest_path[p]] = NoFile
  /\ \A path \in Paths :
       (path[1] \in DestDirs /\ fs[path] # NoFile) => fs'[path] = fs[path]

\* C34: relocation never overwrites a file: in every interleaving of
\* pipelines (including two pipelines started for the same path), a move
\* performed by safe_move targets a path at which no file exists at the
\* moment of the rename, so no file already in a rule destination or in the
\* duplicate folder is ever replaced.
C34_NeverOverwrites == [][C34_MoveStep]_vars


\* the paths at which a file is
PathsOf(fsys, f) == {path \in Paths : fsys[path] = f}

\* C33: no file is at two paths
C33_AtMostOnePath == \A f \in Files : Cardinality(PathsOf(fs, f)) <= 1

\* C33: a step of a sort_file call leaves every file that exists at exactly
\* one path, in the source folder, a rule destination or the duplicate
\* folder, and leaves what the destination folders held beforehand
C33_PipelineStep ==
  (\E p \in Proc : pc'[p] # pc[p])
    => /\ \A f \in Files :
            PathsOf(fs, f) # {}
              => /\ Cardinality(PathsOf(fs', f)) = 1
                 /\ \A path \in PathsOf(fs', f) :
                      \/ path = SrcPath(f)
                      \/ path[1] \in RuleDests \cup {DuplicateFolder}
       /\ \A path \in Paths : fs[path] = Foreign => fs'[path] = Foreign

\* C33: the pipeline never destroys or duplicates a file: after any sequence
\* of sort_file calls, every file that entered the pipeline exists at exactly
\* one path, which is its source path, a path in a rule destination, or a
\* path in the duplicate folder (unless an external actor removed it).
C33_FilesAreKept == []C33_AtMostOnePath /\ [][C33_PipelineStep]_vars

\* C33 witness: both calls have returned; one file was moved into a rule
\* destination next to files that were there, the other into the duplicate
\* folder, and each is at that one path
C33_Witness ==
  /\ \A p \in Proc : pc[p] = "done"
  /\ \E f \in Files, g \in Files :
       /\ \E path \in PathsOf(fs, f) : path[1] \in RuleDests /\ path[3] > 0
       /\ \E path \in PathsOf(fs, g) : path[1] = DuplicateFolder
       /\ Cardinality(PathsOf(fs, f)) = 1
       /\ Cardinality(PathsOf(fs, g)) = 1


\* call q handles a second notification for the path of the file that call
\* p left Retained (no rule matched), and it fingerprints the same bytes
Redelivered(p, q) ==
  /\ p # q
  /\ NoRuleMatched(p) /\ ~faulted[p]
  /\ file[q] = file[p] /\ ord[p] < ord[q]
  /\ file_hash[q] \in {Nil, file_hash[p]}

\* C35: no step of the second pipeline moves the file or writes the ledger
C35_RedeliveryStep ==
  \A p \in Proc, q \in Proc :
    (Redelivered(p, q) /\ pc'[q] # pc[q] /\ ~faulted'[q])
      => /\ fs' = fs
         /\ ledger' = ledger

\* C35: re-delivery of a notification for a path whose file has already
\* completed its pipeline is idempotent: the second pipeline changes neither
\* the file's location nor the ledger; in particular a Retained file stays at
\* its original path when its path is notified again (by a created or a
\* moved event).
C35_RedeliveryIsIdempotent == [][C35_RedeliveryStep]_vars


\* the files that are in the duplicate folder
Diverted == {f \in Files : InDir(f, {DuplicateFolder})}

\* the sort_file calls made so far
CallsMade == {p \in Proc : pc[p] # "idle"}

\* no call is under way
Quiescent == \A p \in Proc : pc[p] \in {"idle", "done"}

\* C36: each sort_file call increments files_processed exactly once and
\* increments at most one of files_sorted and duplicates_found, so in every
\* reachable state files_sorted + duplicates_found <= files_processed, and
\* (between calls) duplicates_found equals the number of files actually
\* moved into the duplicate folder.
C36_CountersAgree ==
  /\ stats.files_processed = Cardinality(CallsMade)
  /\ stats.files_sorted + stats.duplicates_found <= stats.files_processed
  /\ Quiescent => stats.duplicates_found = Cardinality(Diverted)


\* the duplicate lookup of call p found its digest in the ledger and the
\* call has not left handle_duplicate yet
FoundInLedger(p) == pc[p] \in {"dup", "dupmove"}

\* C37: what a step of a call does whose digest was found in the ledger: it
\* stays in handle_duplicate or returns from sort_file, no rule is evaluated
\* for it, and its file is not put into a rule destination
C37_FoundStep ==
  \A p \in Proc :
    FoundInLedger(p)
      => /\ pc'[p] \in {"dup", "dupmove", "done"}
         /\ trail'[p] = trail[p]
         /\ \A path \in Paths :
              (path[1] \in RuleDests /\ fs'[path] = file[p])
                => fs[path] = file[p]

\* C37: a file whose digest is already in the ledger when its duplicate
\* lookup runs is never matched against rules and never relocated into a rule
\* destination, also when moving it into the duplicate folder fails (move
\* failure or naming exhaustion): the call ends with the file in the
\* duplicate folder or unmoved at its source path
C37_DuplicateNeverReachesRules == [][C37_FoundStep]_vars

===========================================================================
